---- MODULE Spec2Model ----
(***************************************************************************)
(* Model of the two stateless algorithms of the OCR / translate pipeline   *)
(* (src/old5_streamlit_app.py, repeated verbatim in src/streamlit_app.py): *)
(*   auto_detect_and_extract  - the language auto-detector                 *)
(*   translate_text           - the chunked translator                     *)
(*                                                                         *)
(* Strings are run-length encoded: a string is a sequence of runs          *)
(* [c |-> character, n |-> repeat count], n > 0, adjacent runs having      *)
(* different characters.  Two strings are equal iff their encodings are.   *)
(***************************************************************************)
EXTENDS Integers, Sequences, FiniteSets, TLC

\* ---------------------------------------------------------------- bounds
\* longest run of padding whitespace put on each side of an OCR output
MaxPad == 1
\* how far above the meaningful-text threshold an OCR output goes
MaxExtra == 2

\* most paragraph segments an input text of translate_text is built from
MaxParas == 3
\* longest run of newlines closing a segment
MaxNewlines == 2

\* ------------------------------------------------------ program constants
\* max_length = 4500
max_length == 4500
\* the literal 20 of `if len(text.strip()) > 20`
meaningful_threshold == 20

priority_languages ==
    <<"eng", "deu", "spa", "fra", "ita", "por", "rus", "jpn", "chi_sim", "ara">>

\* ------------------------------------------------------------ characters
NL == "\n"
SP == " "

\* str.strip() with no argument removes whitespace
IsSpace(c) == c \in {SP, NL}

\* ------------------------------------------------------- string helpers
EMPTY == <<>>

\* c * n
Rep(c, n) == IF n = 0 THEN <<>> ELSE <<[c |-> c, n |-> n]>>

\* s + t
Cat(s, t) ==
    IF s = <<>> THEN t
    ELSE IF t = <<>> THEN s
    ELSE IF s[Len(s)].c = t[1].c
         THEN SubSeq(s, 1, Len(s) - 1)
              \o <<[c |-> t[1].c, n |-> s[Len(s)].n + t[1].n]>>
              \o Tail(t)
         ELSE s \o t

\* len(s)
RECURSIVE len(_)
len(s) == IF s = <<>> THEN 0 ELSE s[1].n + len(Tail(s))

RECURSIVE lstrip(_)
lstrip(s) ==
    IF s = <<>> THEN s
    ELSE IF IsSpace(s[1].c) THEN lstrip(Tail(s)) ELSE s

RECURSIVE rstrip(_)
rstrip(s) ==
    IF s = <<>> THEN s
    ELSE IF IsSpace(s[Len(s)].c) THEN rstrip(SubSeq(s, 1, Len(s) - 1)) ELSE s

\* s.strip()
strip(s) == rstrip(lstrip(s))

\* the paragraph separator "\n\n"
SEP == Rep(NL, 2)

\* s.split("\n\n"): scan left to right, cutting at each non-overlapping
\* occurrence of the separator; cur is the piece being read
RECURSIVE SplitFrom(_, _, _)
SplitFrom(s, cur, acc) ==
    IF s = <<>> THEN Append(acc, cur)
    ELSE IF s[1].c # NL \/ s[1].n = 1
         THEN SplitFrom(Tail(s), Cat(cur, <<s[1]>>), acc)
         ELSE SplitFrom(Rep(NL, s[1].n - 2) \o Tail(s), EMPTY, Append(acc, cur))

split(s) == SplitFrom(s, EMPTY, <<>>)

\* sep.join(parts)
RECURSIVE join(_, _)
join(sep, parts) ==
    IF parts = <<>> THEN EMPTY
    ELSE IF Len(parts) = 1 THEN parts[1]
    ELSE Cat(parts[1], Cat(sep, join(sep, Tail(parts))))

\* ------------------------------------------------- external service: OCR
\* n characters of recognised text holding one interior blank when n >= 3
Body(n) ==
    IF n < 3 THEN Rep("a", n)
    ELSE Cat(Rep("a", n - 2), Cat(Rep(SP, 1), Rep("a", 1)))

OcrLens == {0} \cup ((meaningful_threshold - 1) .. (meaningful_threshold + MaxExtra))

\* what pytesseract.image_to_string may return: the recognised text between
\* pad blanks and pad newlines
OcrTexts ==
    { Cat(Rep(SP, pad), Cat(Body(n), Rep(NL, pad))) :
        pad \in 0 .. MaxPad, n \in OcrLens }

\* ------------------------------- external service: translation provider
Providers == {"echo", "swap"}

RECURSIVE Swap(_)
Swap(s) ==
    IF s = <<>> THEN s
    ELSE <<[c |-> IF s[1].c = "a" THEN "b" ELSE s[1].c, n |-> s[1].n]>> \o Swap(Tail(s))

\* what GoogleTranslator(...).translate(s) returns when it returns
Translate(p, s) == IF p = "echo" THEN s ELSE Swap(s)

\* str(e) of what it raises
ProviderErrors == {"quota exceeded", "connection reset"}

\* ------------------------------------------------ inputs of translate_text
ParaLens == {0, max_length \div 2 - 2, max_length \div 2 - 1, max_length + 1}

Segments ==
    { Cat(Rep("a", n), Rep(NL, m)) : n \in ParaLens, m \in 0 .. MaxNewlines }

RECURSIVE TextsOf(_)
TextsOf(k) ==
    IF k = 0 THEN {EMPTY}
    ELSE LET shorter == TextsOf(k - 1)
         IN  shorter \cup { Cat(s, t) : s \in Segments, t \in shorter }

Texts == TextsOf(MaxParas)

\* k paragraphs of n characters each, separated by blank lines
EqualParas(k, n) == join(SEP, [i \in 1 .. k |-> Rep("a", n)])

\* five equal paragraphs, two of which fit in a chunk and three of which do not
ScenarioTexts ==
    { EqualParas(5, n) : n \in {max_length \div 3 + 1, 2000, max_length \div 2 - 2} }

Inputs == Texts \cup ScenarioTexts

VARIABLES
    fn,            \* the function that was called, or "none"
    pc,            \* position in the running function
    lang_idx,      \* index of lang_code in priority_languages
    text,          \* auto_detect_and_extract: last OCR output
    best_text,
    best_lang,
    ocr_calls,     \* lang= argument of every image_to_string call, in order
    detect_calls,  \* every langdetect.detect call: [lang, ok]
    ocr_outcome,   \* how the last image_to_string call ended: "none", "returned", "raised"
    fallback,      \* outcome of the OCR call after the loop: "none", "ok", "raise"
    fallback_text, \* what that call returned
    longest,       \* longest trimmed text any candidate returned, earliest on ties
    first_len,     \* trimmed length of the first candidate's output; -1 before
                   \* the first call, -2 if that call raised
    ret,           \* the returned value, or "none"
    provider,      \* how the translation provider answers in this call
    paragraphs,
    para_idx,      \* index of para in paragraphs
    current_chunk,
    translated_paragraphs,
    provider_calls, \* argument of every translate() call, in order
    provider_error, \* str(e) of the exception the provider raised, or "none"
    err            \* the raised exception's message parts, or "none"

detect_vars == <<lang_idx, best_text, best_lang, ocr_calls, detect_calls,
                 ocr_outcome, fallback, fallback_text, longest, first_len>>

translate_vars == <<provider, paragraphs, para_idx, current_chunk,
                    translated_paragraphs, provider_calls, provider_error, err>>

\* ---------------------------------------------------------- text_to_speech
\* max_tts_length = 3000
max_tts_length == 3000

VARIABLES
    tts_pc,          \* position in text_to_speech
    tts_arg,         \* the text argument as passed by the caller
    tts_text,        \* the local `text`, reassigned when truncated
    tts_warned,      \* st.warning("Text truncated ...") was shown
    tts_engine_text, \* text= argument of the gTTS(...) call, or "none"
    tts_ret,         \* "none", or the returned (audio_html, audio_fp) as <<"audio", text>>
    tts_err          \* the raised exception's message parts, or "none"

tts_vars == <<tts_pc, tts_arg, tts_text, tts_warned, tts_engine_text, tts_ret, tts_err>>

TtsInit ==
    /\ tts_pc = "idle"
    /\ tts_arg = EMPTY
    /\ tts_text = EMPTY
    /\ tts_warned = FALSE
    /\ tts_engine_text = "none"
    /\ tts_ret = "none"
    /\ tts_err = "none"

\* ------------------------------------- extract_text_from_pdf, PDF auto branch
VARIABLES
    pdf_fn,        \* "none", "extract_text_from_pdf" or "auto_pdf" (the Auto-detect PDF branch)
    pdf_pc,        \* position in that code
    tmp_exists,    \* the temporary PDF created by this call is on disk
    tmp_path,      \* the local tmp_path: "none" (None) or the file's name
    images,        \* len(images), -1 before convert_from_path returned
    page_idx,      \* i + 1 of the page loop
    all_text,      \* the labelled pages kept so far
    pdf_lang,      \* language_code / detected_lang_code, "none" before it is known
    page_calls,    \* every extract_text_from_image call: [page, lang, out]
    detect_pages,  \* page number of every auto_detect_and_extract call
    pdf_pending,   \* outcome on its way through the finally block, or "none"
    pdf_outcome,   \* "none", <<"return", value>> or <<"raise", message>>
    unlink         \* os.unlink: "none" (not called), "ok" or "raised"

pdf_vars == <<pdf_fn, pdf_pc, tmp_exists, tmp_path, images, page_idx, all_text,
              pdf_lang, page_calls, detect_pages, pdf_pending, pdf_outcome, unlink>>

PdfInit ==
    /\ pdf_fn = "none"
    /\ pdf_pc = "idle"
    /\ tmp_exists = FALSE
    /\ tmp_path = "none"
    /\ images = -1
    /\ page_idx = 1
    /\ all_text = <<>>
    /\ pdf_lang = "none"
    /\ page_calls = <<>>
    /\ detect_pages = <<>>
    /\ pdf_pending = "none"
    /\ pdf_outcome = "none"
    /\ unlink = "none"

\* ------------------------------------------------ Start AudioBook pipeline
VARIABLES
    pipe_pc,               \* position in the button handler
    extracted_text,
    translation_language,  \* the "Translate To" choice
    translation_lang_code, \* TRANSLATION_LANGUAGES[translation_language]
    enable_tts,
    translated_text,       \* [some, s]: None is some = FALSE
    translate_outcome,     \* "none", "returned" or "raised"
    tts_outcome,           \* "none", "returned" or "raised"
    events                 \* calls, log entries, messages and download buttons, in order

pipe_vars == <<pipe_pc, extracted_text, translation_language, translation_lang_code,
               enable_tts, translated_text, translate_outcome, tts_outcome, events>>

\* Python's None for translated_text
None == [some |-> FALSE, s |-> EMPTY]

PipeInit ==
    /\ pipe_pc = "idle"
    /\ extracted_text = EMPTY
    /\ translation_language = "No Translation"
    /\ translation_lang_code = "None"
    /\ enable_tts = TRUE
    /\ translated_text = None
    /\ translate_outcome = "none"
    /\ tts_outcome = "none"
    /\ events = <<>>

\* ------------------------------------------- sign in, registration, sessions
\* the browser sessions running the script at the same time
Sessions == {1, 2}

\* st.session_state.user_id = None: ids of the users table start at 1
NoId == 0

\* st.session_state.username = None: no stored username is empty
NoName == ""

VARIABLES
    users,          \* the users table, rows in insertion order
    session_state,  \* per session: logged_in, user_id, username, is_admin
    view,           \* per session: the section the last script run showed
    reg_pc,         \* per session: position in the registration handler
    reg_form,       \* per session: the submitted username and email
    reg_result,     \* per session: what the last registration attempt showed
    verified        \* per session: credentials of the last successful sign-in

auth_vars == <<users, session_state, view, reg_pc, reg_form, reg_result, verified>>

\* hashlib.sha256(password.encode()).hexdigest()
hash_password(password) == <<"sha256", password>>

\* the row init_database inserts from st.secrets["admin"]
AdminRow ==
    [id |-> 1, username |-> "admin", password_hash |-> hash_password("Admin#1"),
     email |-> "admin@app.local", is_admin |-> TRUE]

\* the defaults written when the keys are missing from st.session_state
LoggedOut == [logged_in |-> FALSE, user_id |-> NoId, username |-> NoName, is_admin |-> FALSE]

NoForm == [username |-> NoName, email |-> ""]

NoCredentials == [username |-> NoName, password |-> ""]

\* nothing shown yet by the registration handler
NoResult == <<>>

AuthInit ==
    /\ users = <<AdminRow>>
    /\ session_state = [s \in Sessions |-> LoggedOut]
    /\ view = [s \in Sessions |-> "auth"]
    /\ reg_pc = [s \in Sessions |-> "idle"]
    /\ reg_form = [s \in Sessions |-> NoForm]
    /\ reg_result = [s \in Sessions |-> NoResult]
    /\ verified = [s \in Sessions |-> NoCredentials]

\* the variables of the code around the two core functions
app_vars == <<tts_vars, pdf_vars, pipe_vars, auth_vars>>

AppInit ==
    /\ TtsInit
    /\ PdfInit
    /\ PipeInit
    /\ AuthInit

core_vars == <<fn, pc, text, ret, detect_vars, translate_vars>>

vars == <<core_vars, app_vars>>

\* what each part of the surrounding code leaves alone
non_tts_vars == <<core_vars, pdf_vars, pipe_vars, auth_vars>>

non_pdf_vars == <<core_vars, tts_vars, pipe_vars, auth_vars>>

non_pipe_vars == <<core_vars, tts_vars, pdf_vars, auth_vars>>

non_auth_vars == <<core_vars, tts_vars, pdf_vars, pipe_vars>>

NoLongest == [text |-> EMPTY, lang |-> "none"]

Init ==
    /\ fn = "none"
    /\ pc = "idle"
    /\ lang_idx = 1
    /\ text = EMPTY
    /\ best_text = EMPTY
    /\ best_lang = "eng"
    /\ ocr_calls = <<>>
    /\ detect_calls = <<>>
    /\ ocr_outcome = "none"
    /\ fallback = "none"
    /\ fallback_text = EMPTY
    /\ longest = NoLongest
    /\ first_len = -1
    /\ ret = "none"
    /\ provider = "echo"
    /\ paragraphs = <<>>
    /\ para_idx = 1
    /\ current_chunk = EMPTY
    /\ translated_paragraphs = <<>>
    /\ provider_calls = <<>>
    /\ provider_error = "none"
    /\ err = "none"
    /\ AppInit

\* ------------------------------------------------ auto_detect_and_extract
lang_code == priority_languages[lang_idx]

\* best_text = ""; best_lang = "eng"; enter the for loop
CallDetect ==
    /\ pc = "idle"
    /\ fn' = "auto_detect_and_extract"
    /\ pc' = "ocr"
    /\ lang_idx' = 1
    /\ best_text' = EMPTY
    /\ best_lang' = "eng"
    /\ UNCHANGED <<first_len, ocr_outcome, text, ocr_calls, detect_calls, fallback, fallback_text,
                   longest, ret,
                   translate_vars, app_vars>>

\* Meaningful without the comparison against the running best
MeaningfulOverThreshold(t, best) == len(strip(t)) > meaningful_threshold

\* the two nested length tests guarding the detection attempt
Meaningful(t, best) ==
    /\ len(strip(t)) > len(strip(best))
    /\ len(strip(t)) > meaningful_threshold

\* the record of the longest trimmed output seen
Longer(t, lang, old) ==
    IF len(strip(t)) > len(old.text)
    THEN [text |-> strip(t), lang |-> lang]
    ELSE old

\* image_to_string(lang=lang_code) returns t
OcrReturns ==
    /\ pc = "ocr"
    /\ lang_idx <= Len(priority_languages)
    /\ \E t \in OcrTexts :
       /\ ocr_outcome' = "returned"
       /\ ocr_calls' = Append(ocr_calls, lang_code)
       /\ text' = t
       /\ longest' = Longer(t, lang_code, longest)
       /\ first_len' = IF ocr_calls = <<>> THEN len(strip(t)) ELSE first_len
       /\ IF Meaningful(t, best_text)
          THEN /\ pc' = "detect"
               /\ UNCHANGED lang_idx
          ELSE /\ pc' = "ocr"
               /\ lang_idx' = lang_idx + 1
       /\ UNCHANGED <<fn, best_text, best_lang, detect_calls, fallback, fallback_text, ret,
                      translate_vars, app_vars>>

\* OcrRaises without the except: the exception leaves the function
OcrRaisesPropagates ==
    /\ pc = "ocr"
    /\ lang_idx <= Len(priority_languages)
    /\ ocr_outcome' = "raised"
    /\ ocr_calls' = Append(ocr_calls, lang_code)
    /\ first_len' = IF ocr_calls = <<>> THEN -2 ELSE first_len
    /\ pc' = "raised"
    /\ UNCHANGED <<fn, lang_idx, text, best_text, best_lang, detect_calls,
                   fallback, fallback_text, longest, ret, translate_vars, app_vars>>

\* OcrRaises stepping over the next candidate
OcrRaisesSkips ==
    /\ pc = "ocr"
    /\ lang_idx <= Len(priority_languages)
    /\ ocr_outcome' = "raised"
    /\ ocr_calls' = Append(ocr_calls, lang_code)
    /\ first_len' = IF ocr_calls = <<>> THEN -2 ELSE first_len
    /\ pc' = "ocr"
    /\ lang_idx' = lang_idx + 2
    /\ UNCHANGED <<fn, text, best_text, best_lang, detect_calls, fallback,
                   fallback_text, longest, ret,
                   translate_vars, app_vars>>

\* image_to_string(lang=lang_code) raises: except: continue
OcrRaises ==
    /\ pc = "ocr"
    /\ lang_idx <= Len(priority_languages)
    /\ ocr_outcome' = "raised"
    /\ ocr_calls' = Append(ocr_calls, lang_code)
    /\ first_len' = IF ocr_calls = <<>> THEN -2 ELSE first_len
    /\ pc' = "ocr"
    /\ lang_idx' = lang_idx + 1
    /\ UNCHANGED <<fn, text, best_text, best_lang, detect_calls, fallback,
                   fallback_text, longest, ret,
                   translate_vars, app_vars>>

\* DetectOk without the break: the loop goes on to the next candidate
DetectOkNoBreak ==
    /\ pc = "detect"
    /\ detect_calls' = Append(detect_calls, [lang |-> lang_code, ok |-> TRUE])
    /\ best_text' = strip(text)
    /\ best_lang' = lang_code
    /\ pc' = "ocr"
    /\ lang_idx' = lang_idx + 1
    /\ UNCHANGED <<first_len, fn, ocr_outcome, text, ocr_calls, fallback, fallback_text,
                   longest, ret, translate_vars, app_vars>>

\* DetectOk storing the code langdetect returned in place of lang_code
DetectOkUsesDetected ==
    /\ pc = "detect"
    /\ detect_calls' = Append(detect_calls, [lang |-> lang_code, ok |-> TRUE])
    /\ best_text' = strip(text)
    /\ best_lang' = "en"
    /\ pc' = "after_loop"
    /\ UNCHANGED <<first_len, fn, ocr_outcome, lang_idx, text, ocr_calls, fallback, fallback_text, longest, ret,
                   translate_vars, app_vars>>

\* langdetect.detect(text) returns: record the candidate and break
DetectOk ==
    /\ pc = "detect"
    /\ detect_calls' = Append(detect_calls, [lang |-> lang_code, ok |-> TRUE])
    /\ best_text' = strip(text)
    /\ best_lang' = lang_code
    /\ pc' = "after_loop"
    /\ UNCHANGED <<first_len, fn, ocr_outcome, lang_idx, text, ocr_calls, fallback, fallback_text, longest, ret,
                   translate_vars, app_vars>>

\* DetectRaises with a bare `except: pass`: the text is not kept
DetectRaisesDiscards ==
    /\ pc = "detect"
    /\ detect_calls' = Append(detect_calls, [lang |-> lang_code, ok |-> FALSE])
    /\ UNCHANGED <<best_text, best_lang>>
    /\ pc' = "ocr"
    /\ lang_idx' = lang_idx + 1
    /\ UNCHANGED <<first_len, fn, ocr_outcome, text, ocr_calls, fallback, fallback_text, longest, ret,
                   translate_vars, app_vars>>

\* DetectRaises going back to the same candidate
DetectRaisesRetries ==
    /\ pc = "detect"
    /\ detect_calls' = Append(detect_calls, [lang |-> lang_code, ok |-> FALSE])
    /\ UNCHANGED <<best_text, best_lang>>
    /\ pc' = "ocr"
    /\ UNCHANGED <<first_len, fn, ocr_outcome, lang_idx, text, ocr_calls, fallback, fallback_text, longest, ret,
                   translate_vars, app_vars>>

\* langdetect.detect(text) raises: keep the text if longer, next candidate
DetectRaises ==
    /\ pc = "detect"
    /\ detect_calls' = Append(detect_calls, [lang |-> lang_code, ok |-> FALSE])
    /\ IF len(strip(text)) > len(strip(best_text))
       THEN /\ best_text' = strip(text)
            /\ best_lang' = lang_code
       ELSE UNCHANGED <<best_text, best_lang>>
    /\ pc' = "ocr"
    /\ lang_idx' = lang_idx + 1
    /\ UNCHANGED <<first_len, fn, ocr_outcome, text, ocr_calls, fallback, fallback_text, longest, ret,
                   translate_vars, app_vars>>

\* the for loop runs out of candidates
LoopEnd ==
    /\ pc = "ocr"
    /\ lang_idx > Len(priority_languages)
    /\ pc' = "after_loop"
    /\ UNCHANGED <<first_len, fn, ocr_outcome, lang_idx, text, best_text, best_lang, ocr_calls, detect_calls,
                   fallback, fallback_text, longest, ret,
                   translate_vars, app_vars>>

\* `not best_text` is false: return best_text, best_lang
ReturnBest ==
    /\ pc = "after_loop"
    /\ best_text # EMPTY
    /\ ret' = <<best_text, best_lang>>
    /\ pc' = "done"
    /\ UNCHANGED <<first_len, fn, ocr_outcome, lang_idx, text, best_text, best_lang, ocr_calls, detect_calls,
                   fallback, fallback_text, longest,
                   translate_vars, app_vars>>

\* FallbackReturns without the .strip()
FallbackReturnsRaw ==
    /\ pc = "after_loop"
    /\ best_text = EMPTY
    /\ \E t \in OcrTexts :
       /\ ocr_outcome' = "returned"
       /\ ocr_calls' = Append(ocr_calls, "eng")
       /\ fallback' = "ok"
       /\ fallback_text' = t
       /\ best_text' = t
       /\ best_lang' = "eng"
       /\ ret' = <<t, "eng">>
       /\ pc' = "done"
       /\ UNCHANGED <<first_len, fn, lang_idx, text, detect_calls, longest,
                      translate_vars, app_vars>>

\* `not best_text`: image_to_string(lang="eng") returns t
FallbackReturns ==
    /\ pc = "after_loop"
    /\ best_text = EMPTY
    /\ \E t \in OcrTexts :
       /\ ocr_outcome' = "returned"
       /\ ocr_calls' = Append(ocr_calls, "eng")
       /\ fallback' = "ok"
       /\ fallback_text' = t
       /\ best_text' = strip(t)
       /\ best_lang' = "eng"
       /\ ret' = <<strip(t), "eng">>
       /\ pc' = "done"
       /\ UNCHANGED <<first_len, fn, lang_idx, text, detect_calls, longest,
                      translate_vars, app_vars>>

\* `not best_text`: image_to_string(lang="eng") raises, nothing catches it
FallbackRaises ==
    /\ pc = "after_loop"
    /\ best_text = EMPTY
    /\ ocr_outcome' = "raised"
    /\ ocr_calls' = Append(ocr_calls, "eng")
    /\ fallback' = "raise"
    /\ pc' = "raised"
    /\ UNCHANGED <<first_len, fn, lang_idx, text, best_text, best_lang, detect_calls,
                   fallback_text, longest, ret,
                   translate_vars, app_vars>>

\* --------------------------------------------------------- translate_text
para == paragraphs[para_idx]

\* f"Translation error: {str(e)}"
TranslationError(cause) == <<"Translation error: ", cause>>

\* Short with < in place of <=
ShortStrict(t) == len(t) < max_length

\* if len(text) <= max_length
Short(t) == len(t) <= max_length

\* translate_text(t, target_lang) is entered, the provider answering as p
CallTranslate ==
    /\ pc = "idle"
    /\ \E t \in Inputs, p \in Providers :
       /\ fn' = "translate_text"
       /\ pc' = "translate"
       /\ text' = t
       /\ provider' = p
       /\ UNCHANGED <<ret, detect_vars, app_vars, paragraphs, para_idx, current_chunk,
                      translated_paragraphs, provider_calls, provider_error, err>>

\* SingleReturns with a guard returning "" for empty text without a call
SingleReturnsSkipsEmpty ==
    /\ pc = "translate"
    /\ Short(text)
    /\ IF text = EMPTY
       THEN /\ ret' = EMPTY
            /\ UNCHANGED provider_calls
       ELSE /\ provider_calls' = Append(provider_calls, text)
            /\ ret' = Translate(provider, text)
    /\ pc' = "done"
    /\ UNCHANGED <<fn, text, detect_vars, app_vars, provider, paragraphs, para_idx,
                   current_chunk, translated_paragraphs, provider_error, err>>

\* len(text) <= max_length: one call with the whole text, which returns
SingleReturns ==
    /\ pc = "translate"
    /\ Short(text)
    /\ provider_calls' = Append(provider_calls, text)
    /\ ret' = Translate(provider, text)
    /\ pc' = "done"
    /\ UNCHANGED <<fn, text, detect_vars, app_vars, provider, paragraphs, para_idx,
                   current_chunk, translated_paragraphs, provider_error, err>>

\* len(text) <= max_length: the one call raises
SingleRaises(cause) ==
    /\ pc = "translate"
    /\ Short(text)
    /\ provider_calls' = Append(provider_calls, text)
    /\ provider_error' = cause
    /\ err' = TranslationError(cause)
    /\ pc' = "raised"
    /\ UNCHANGED <<fn, text, ret, detect_vars, app_vars, provider, paragraphs, para_idx,
                   current_chunk, translated_paragraphs>>

\* SplitText with translated_paragraphs kept from before the call, as a
\* list shared between invocations would be
SplitTextKeepsTranslations ==
    /\ pc = "translate"
    /\ ~Short(text)
    /\ paragraphs' = split(text)
    /\ current_chunk' = EMPTY
    /\ para_idx' = 1
    /\ pc' = "pack"
    /\ UNCHANGED <<fn, text, ret, detect_vars, app_vars, provider, translated_paragraphs,
                   provider_calls, provider_error, err>>

\* else: paragraphs = text.split('\n\n'); translated_paragraphs = [];
\* current_chunk = ""
SplitText ==
    /\ pc = "translate"
    /\ ~Short(text)
    /\ paragraphs' = split(text)
    /\ translated_paragraphs' = <<>>
    /\ current_chunk' = EMPTY
    /\ para_idx' = 1
    /\ pc' = "pack"
    /\ UNCHANGED <<fn, text, ret, detect_vars, app_vars, provider, provider_calls, provider_error, err>>

\* Fits with <= in place of <
FitsInclusive(chunk, p) == len(chunk) + len(p) <= max_length

\* if len(current_chunk) + len(para) < max_length
Fits(chunk, p) == len(chunk) + len(p) < max_length

\* Closed without the separator
ClosedNoSeparator(p) == p

\* para + "\n\n"
Closed(p) == Cat(p, SEP)

\* the paragraph fits: current_chunk += para + "\n\n"
PackAppend ==
    /\ pc = "pack"
    /\ para_idx <= Len(paragraphs)
    /\ Fits(current_chunk, para)
    /\ current_chunk' = Cat(current_chunk, Closed(para))
    /\ para_idx' = para_idx + 1
    /\ UNCHANGED <<fn, pc, text, ret, detect_vars, app_vars, provider, paragraphs,
                   translated_paragraphs, provider_calls, provider_error, err>>

\* it does not fit and current_chunk is empty: current_chunk = para + "\n\n"
PackStart ==
    /\ pc = "pack"
    /\ para_idx <= Len(paragraphs)
    /\ ~Fits(current_chunk, para)
    /\ current_chunk = EMPTY
    /\ current_chunk' = Closed(para)
    /\ para_idx' = para_idx + 1
    /\ UNCHANGED <<fn, pc, text, ret, detect_vars, app_vars, provider, paragraphs,
                   translated_paragraphs, provider_calls, provider_error, err>>

\* PackFlushReturns restarting the buffer empty: the paragraph is lost
PackFlushDropsPara ==
    /\ pc = "pack"
    /\ para_idx <= Len(paragraphs)
    /\ ~Fits(current_chunk, para)
    /\ current_chunk # EMPTY
    /\ provider_calls' = Append(provider_calls, current_chunk)
    /\ translated_paragraphs' =
           Append(translated_paragraphs, Translate(provider, current_chunk))
    /\ current_chunk' = EMPTY
    /\ para_idx' = para_idx + 1
    /\ UNCHANGED <<fn, pc, text, ret, detect_vars, app_vars, provider, paragraphs, provider_error, err>>

\* PackFlushReturns putting the new translation in front of the list
PackFlushPrepends ==
    /\ pc = "pack"
    /\ para_idx <= Len(paragraphs)
    /\ ~Fits(current_chunk, para)
    /\ current_chunk # EMPTY
    /\ provider_calls' = Append(provider_calls, current_chunk)
    /\ translated_paragraphs' =
           <<Translate(provider, current_chunk)>> \o translated_paragraphs
    /\ current_chunk' = Closed(para)
    /\ para_idx' = para_idx + 1
    /\ UNCHANGED <<fn, pc, text, ret, detect_vars, app_vars, provider, paragraphs, provider_error, err>>

\* it does not fit: current_chunk is translated, then restarted with para
PackFlushReturns ==
    /\ pc = "pack"
    /\ para_idx <= Len(paragraphs)
    /\ ~Fits(current_chunk, para)
    /\ current_chunk # EMPTY
    /\ provider_calls' = Append(provider_calls, current_chunk)
    /\ translated_paragraphs' =
           Append(translated_paragraphs, Translate(provider, current_chunk))
    /\ current_chunk' = Closed(para)
    /\ para_idx' = para_idx + 1
    /\ UNCHANGED <<fn, pc, text, ret, detect_vars, app_vars, provider, paragraphs, provider_error, err>>

\* PackFlushRaises with the exception swallowed: the chunk is dropped and
\* packing goes on
PackFlushSwallows(cause) ==
    /\ pc = "pack"
    /\ para_idx <= Len(paragraphs)
    /\ ~Fits(current_chunk, para)
    /\ current_chunk # EMPTY
    /\ provider_calls' = Append(provider_calls, current_chunk)
    /\ provider_error' = cause
    /\ current_chunk' = Closed(para)
    /\ para_idx' = para_idx + 1
    /\ UNCHANGED <<fn, pc, text, ret, detect_vars, app_vars, provider, paragraphs,
                   translated_paragraphs, err>>

\* it does not fit and translating current_chunk raises
PackFlushRaises(cause) ==
    /\ pc = "pack"
    /\ para_idx <= Len(paragraphs)
    /\ ~Fits(current_chunk, para)
    /\ current_chunk # EMPTY
    /\ provider_calls' = Append(provider_calls, current_chunk)
    /\ provider_error' = cause
    /\ err' = TranslationError(cause)
    /\ pc' = "raised"
    /\ UNCHANGED <<fn, text, ret, detect_vars, app_vars, provider, paragraphs, para_idx,
                   current_chunk, translated_paragraphs>>

\* after the loop: if current_chunk: translate it; return the joined translations
FinalReturns ==
    /\ pc = "pack"
    /\ para_idx > Len(paragraphs)
    /\ IF current_chunk # EMPTY
       THEN /\ provider_calls' = Append(provider_calls, current_chunk)
            /\ translated_paragraphs' =
                   Append(translated_paragraphs, Translate(provider, current_chunk))
       ELSE UNCHANGED <<provider_calls, translated_paragraphs>>
    /\ ret' = join(SEP, translated_paragraphs')
    /\ pc' = "done"
    /\ UNCHANGED <<fn, text, detect_vars, app_vars, provider, paragraphs, para_idx,
                   current_chunk, provider_error, err>>

\* after the loop: translating the last chunk raises
FinalRaises(cause) ==
    /\ pc = "pack"
    /\ para_idx > Len(paragraphs)
    /\ current_chunk # EMPTY
    /\ provider_calls' = Append(provider_calls, current_chunk)
    /\ provider_error' = cause
    /\ err' = TranslationError(cause)
    /\ pc' = "raised"
    /\ UNCHANGED <<fn, text, ret, detect_vars, app_vars, provider, paragraphs, para_idx,
                   current_chunk, translated_paragraphs>>

Next ==
    \/ CallDetect
    \/ OcrReturns
    \/ OcrRaises
    \/ DetectOk
    \/ DetectRaises
    \/ LoopEnd
    \/ ReturnBest
    \/ FallbackReturns
    \/ FallbackRaises
    \/ CallTranslate
    \/ SingleReturns
    \/ \E cause \in ProviderErrors : SingleRaises(cause)
    \/ SplitText
    \/ PackAppend
    \/ PackStart
    \/ PackFlushReturns
    \/ \E cause \in ProviderErrors : PackFlushRaises(cause)
    \/ FinalReturns
    \/ \E cause \in ProviderErrors : FinalRaises(cause)

Spec == Init /\ [][Next]_vars

\* ------------------------------------------------------ a later invocation
\* what an earlier invocation left in a local
Leftover == Rep("z", meaningful_threshold + MaxExtra + 1)

\* the state at the start of an invocation that follows another one: the
\* call logs are empty, the locals hold whatever they held last
InitSecond ==
    /\ fn = "none"
    /\ pc = "idle"
    /\ lang_idx = Len(priority_languages)
    /\ text = Leftover
    /\ best_text = Leftover
    /\ best_lang = priority_languages[Len(priority_languages)]
    /\ ocr_calls = <<>>
    /\ detect_calls = <<>>
    /\ ocr_outcome = "none"
    /\ fallback = "none"
    /\ fallback_text = EMPTY
    /\ longest = NoLongest
    /\ first_len = -1
    /\ ret = "none"
    /\ provider = "swap"
    /\ paragraphs = <<Leftover, Leftover>>
    /\ para_idx = 2
    /\ current_chunk = Leftover
    /\ translated_paragraphs = <<Leftover>>
    /\ provider_calls = <<>>
    /\ provider_error = "none"
    /\ err = "none"
    /\ AppInit

SpecSecond == InitSecond /\ [][Next]_vars

\* ---------------------------------------------------------- text_to_speech
\* the first n characters of s: s[:n]
RECURSIVE Take(_, _)
Take(s, n) ==
    IF n <= 0 \/ s = <<>> THEN <<>>
    ELSE IF s[1].n >= n THEN Rep(s[1].c, n)
    ELSE Cat(<<s[1]>>, Take(Tail(s), n - s[1].n))

Ellipsis == Rep(".", 3)

\* lengths around max_tts_length
TtsLens == {0, 1, max_tts_length - 1, max_tts_length, max_tts_length + 1}

\* texts given to text_to_speech: a body followed by a short tail
TtsTexts ==
    { Cat(Rep("a", n), Rep(c, k)) :
        n \in TtsLens, c \in {"b", "."}, k \in 0 .. (MaxExtra + 1) }

TtsErrors == {"No text to speak", "429 (Too Many Requests)"}

TtsError(cause) == <<"TTS error: ", cause>>

\* text_to_speech(text, lang_code, slow) is called
CallTts ==
    /\ tts_pc = "idle"
    /\ \E t \in TtsTexts :
       /\ tts_arg' = t
       /\ tts_text' = t
    /\ tts_pc' = "check"
    /\ UNCHANGED <<tts_warned, tts_engine_text, tts_ret, tts_err, non_tts_vars>>

\* Truncated without the slice
TruncatedUncut(t) == Cat(t, Ellipsis)

\* text[:max_tts_length] + "..."
Truncated(t) == Cat(Take(t, max_tts_length), Ellipsis)

\* if len(text) > max_tts_length: text = text[:max_tts_length] + "..."; warn
TtsTruncate ==
    /\ tts_pc = "check"
    /\ len(tts_text) > max_tts_length
    /\ tts_text' = Truncated(tts_text)
    /\ tts_warned' = TRUE
    /\ tts_pc' = "gtts"
    /\ UNCHANGED <<tts_arg, tts_engine_text, tts_ret, tts_err, non_tts_vars>>

\* len(text) <= max_tts_length: text is left alone
TtsKeep ==
    /\ tts_pc = "check"
    /\ len(tts_text) <= max_tts_length
    /\ tts_pc' = "gtts"
    /\ UNCHANGED <<tts_arg, tts_text, tts_warned, tts_engine_text, tts_ret, tts_err, non_tts_vars>>

\* gTTS(text=text, ...), write_to_fp, base64: the audio is returned
GttsReturns ==
    /\ tts_pc = "gtts"
    /\ tts_engine_text' = tts_text
    /\ tts_ret' = <<"audio", tts_text>>
    /\ tts_pc' = "done"
    /\ UNCHANGED <<tts_arg, tts_text, tts_warned, tts_err, non_tts_vars>>

\* gTTS(...) or write_to_fp raises: raise Exception("TTS error: ...")
GttsRaises(cause) ==
    /\ tts_pc = "gtts"
    /\ tts_engine_text' = tts_text
    /\ tts_err' = TtsError(cause)
    /\ tts_pc' = "raised"
    /\ UNCHANGED <<tts_arg, tts_text, tts_warned, tts_ret, non_tts_vars>>

NextTts ==
    \/ CallTts
    \/ TtsTruncate
    \/ TtsKeep
    \/ GttsReturns
    \/ \E cause \in TtsErrors : GttsRaises(cause)

SpecTts == Init /\ [][NextTts]_vars

\* ------------------------------------- extract_text_from_pdf, PDF auto branch
\* pages of the PDFs, at most
MaxPages == 2

\* what image_to_string returns for a page
PageTexts == {EMPTY, Rep(NL, 1), Cat(Rep(SP, 1), Cat(Rep("a", 5), Rep(NL, 1))), Rep("b", 3)}

\* language_code given by the caller / returned by auto_detect_and_extract
PdfLangs == {priority_languages[1], priority_languages[4]}

PdfErrors == {"Unable to get page count. Is poppler installed and in PATH?", "disk full"}

\* f"--- Page {i+1} ---\n{text}"
Label(i, t) == [header |-> <<"--- Page ", i, " ---">>, text |-> Cat(Rep(NL, 1), t)]

\* "\n\n".join(all_text)
PdfJoin(parts) == [sep |-> SEP, parts |-> parts]

\* the exception leaving the try block
PdfRaise(message) ==
    /\ pdf_pending' = <<"raise", message>>
    /\ pdf_pc' = "finally"

\* extract_text_from_pdf(pdf_file, language_code): tmp_path = None
CallExtractPdf ==
    /\ pdf_pc = "idle"
    /\ \E l \in PdfLangs : pdf_lang' = l
    /\ pdf_fn' = "extract_text_from_pdf"
    /\ pdf_pc' = "tmpfile"
    /\ UNCHANGED <<tmp_exists, tmp_path, images, page_idx, all_text, page_calls,
                   detect_pages, pdf_pending, pdf_outcome, unlink, non_pdf_vars>>

\* Auto-detect mode, file_type == 'pdf': tmp_path = None
CallAutoPdf ==
    /\ pdf_pc = "idle"
    /\ pdf_fn' = "auto_pdf"
    /\ pdf_pc' = "tmpfile"
    /\ UNCHANGED <<tmp_exists, tmp_path, images, page_idx, all_text, pdf_lang, page_calls,
                   detect_pages, pdf_pending, pdf_outcome, unlink, non_pdf_vars>>

\* tempfile.NamedTemporaryFile(delete=False, suffix='.pdf') creates the file
CreateTmp ==
    /\ pdf_pc = "tmpfile"
    /\ tmp_exists' = TRUE
    /\ pdf_pc' = "write"
    /\ UNCHANGED <<pdf_fn, tmp_path, images, page_idx, all_text, pdf_lang, page_calls,
                   detect_pages, pdf_pending, pdf_outcome, unlink, non_pdf_vars>>

\* NamedTemporaryFile raises: no file was created
CreateTmpRaises(cause) ==
    /\ pdf_pc = "tmpfile"
    /\ PdfRaise(cause)
    /\ UNCHANGED <<pdf_fn, tmp_exists, tmp_path, images, page_idx, all_text, pdf_lang,
                   page_calls, detect_pages, pdf_outcome, unlink, non_pdf_vars>>

\* tmp_file.write(pdf_file.read()); tmp_path = tmp_file.name
WriteTmp ==
    /\ pdf_pc = "write"
    /\ tmp_path' = "tmp.pdf"
    /\ pdf_pc' = "convert"
    /\ UNCHANGED <<pdf_fn, tmp_exists, images, page_idx, all_text, pdf_lang, page_calls,
                   detect_pages, pdf_pending, pdf_outcome, unlink, non_pdf_vars>>

\* pdf_file.read() or tmp_file.write raises: the with block closes the file,
\* which delete=False leaves on disk, and tmp_path is still None
WriteTmpRaises(cause) ==
    /\ pdf_pc = "write"
    /\ PdfRaise(cause)
    /\ UNCHANGED <<pdf_fn, tmp_exists, tmp_path, images, page_idx, all_text, pdf_lang,
                   page_calls, detect_pages, pdf_outcome, unlink, non_pdf_vars>>

\* images = pdf2image.convert_from_path(tmp_path, dpi=300)
ConvertReturns ==
    /\ pdf_pc = "convert"
    /\ \E n \in 0 .. MaxPages : images' = n
    /\ page_idx' = 1
    /\ all_text' = <<>>
    /\ pdf_pc' = IF pdf_fn = "auto_pdf" THEN "detect" ELSE "pages"
    /\ UNCHANGED <<pdf_fn, tmp_exists, tmp_path, pdf_lang, page_calls,
                   detect_pages, pdf_pending, pdf_outcome, unlink, non_pdf_vars>>

\* "poppler" in str(e).lower()
MentionsPoppler(cause) == cause = "Unable to get page count. Is poppler installed and in PATH?"

\* convert_from_path raises: a poppler message is replaced, any other re-raised
ConvertRaises(cause) ==
    /\ pdf_pc = "convert"
    /\ PdfRaise(IF MentionsPoppler(cause) THEN "Poppler is not installed." ELSE cause)
    /\ UNCHANGED <<pdf_fn, tmp_exists, tmp_path, images, page_idx, all_text, pdf_lang,
                   page_calls, detect_pages, pdf_outcome, unlink, non_pdf_vars>>

\* if images: ... else: raise Exception("No pages found in PDF")
NoPages ==
    /\ pdf_pc = "detect"
    /\ images = 0
    /\ PdfRaise("No pages found in PDF")
    /\ UNCHANGED <<pdf_fn, tmp_exists, tmp_path, images, page_idx, all_text, pdf_lang,
                   page_calls, detect_pages, pdf_outcome, unlink, non_pdf_vars>>

\* first_page_text, detected_lang_code = auto_detect_and_extract(images[0])
AutoDetectReturns ==
    /\ pdf_pc = "detect"
    /\ images > 0
    /\ \E l \in PdfLangs : pdf_lang' = l
    /\ detect_pages' = Append(detect_pages, 1)
    /\ pdf_pc' = "pages"
    /\ UNCHANGED <<pdf_fn, tmp_exists, tmp_path, images, page_idx, all_text, page_calls,
                   pdf_pending, pdf_outcome, unlink, non_pdf_vars>>

\* auto_detect_and_extract raises (its call after the loop raised)
AutoDetectRaises(cause) ==
    /\ pdf_pc = "detect"
    /\ images > 0
    /\ detect_pages' = Append(detect_pages, 1)
    /\ PdfRaise(cause)
    /\ UNCHANGED <<pdf_fn, tmp_exists, tmp_path, images, page_idx, all_text, pdf_lang,
                   page_calls, pdf_outcome, unlink, non_pdf_vars>>

\* PageOcrReturns without the `if text:` test
PageOcrKeepsBlank ==
    /\ pdf_pc = "pages"
    /\ page_idx <= images
    /\ \E t \in PageTexts :
       /\ page_calls' = Append(page_calls, [page |-> page_idx, lang |-> pdf_lang, out |-> t])
       /\ all_text' = Append(all_text, Label(page_idx, strip(t)))
    /\ page_idx' = page_idx + 1
    /\ UNCHANGED <<pdf_fn, pdf_pc, tmp_exists, tmp_path, images, pdf_lang,
                   detect_pages, pdf_pending, pdf_outcome, unlink, non_pdf_vars>>

\* text = extract_text_from_image(image, language_code), which strips;
\* if text: all_text.append(f"--- Page {i+1} ---\n{text}")
PageOcrReturns ==
    /\ pdf_pc = "pages"
    /\ page_idx <= images
    /\ \E t \in PageTexts :
       /\ page_calls' = Append(page_calls, [page |-> page_idx, lang |-> pdf_lang, out |-> t])
       /\ all_text' = IF strip(t) # EMPTY
                      THEN Append(all_text, Label(page_idx, strip(t)))
                      ELSE all_text
    /\ page_idx' = page_idx + 1
    /\ UNCHANGED <<pdf_fn, pdf_pc, tmp_exists, tmp_path, images, pdf_lang,
                   detect_pages, pdf_pending, pdf_outcome, unlink, non_pdf_vars>>

\* extract_text_from_image raises Exception("OCR Error: ...")
PageOcrRaises(cause) ==
    /\ pdf_pc = "pages"
    /\ page_idx <= images
    /\ page_calls' = Append(page_calls, [page |-> page_idx, lang |-> pdf_lang, out |-> "raised"])
    /\ PdfRaise(<<"OCR Error: ", cause>>)
    /\ UNCHANGED <<pdf_fn, tmp_exists, tmp_path, images, page_idx, all_text, pdf_lang,
                   detect_pages, pdf_outcome, unlink, non_pdf_vars>>

\* the page loop is over: "\n\n".join(all_text) is the value
PdfJoinPages ==
    /\ pdf_pc = "pages"
    /\ page_idx > images
    /\ pdf_pending' = <<"return", PdfJoin(all_text)>>
    /\ pdf_pc' = "finally"
    /\ UNCHANGED <<pdf_fn, tmp_exists, tmp_path, images, page_idx, all_text, pdf_lang,
                   page_calls, detect_pages, pdf_outcome, unlink, non_pdf_vars>>

\* if tmp_path and os.path.exists(tmp_path)
MustUnlink == tmp_path # "none" /\ tmp_exists

\* finally: os.unlink(tmp_path) removes the file
UnlinkOk ==
    /\ pdf_pc = "finally"
    /\ MustUnlink
    /\ unlink' = "ok"
    /\ tmp_exists' = FALSE
    /\ pdf_outcome' = pdf_pending
    /\ pdf_pc' = "done"
    /\ UNCHANGED <<pdf_fn, tmp_path, images, page_idx, all_text, pdf_lang, page_calls,
                   detect_pages, pdf_pending, non_pdf_vars>>

\* finally: os.unlink(tmp_path) raises: except: pass
UnlinkRaises ==
    /\ pdf_pc = "finally"
    /\ MustUnlink
    /\ unlink' = "raised"
    /\ pdf_outcome' = pdf_pending
    /\ pdf_pc' = "done"
    /\ UNCHANGED <<pdf_fn, tmp_exists, tmp_path, images, page_idx, all_text, pdf_lang,
                   page_calls, detect_pages, pdf_pending, non_pdf_vars>>

\* finally: the test is false, nothing is deleted
UnlinkSkipped ==
    /\ pdf_pc = "finally"
    /\ ~MustUnlink
    /\ pdf_outcome' = pdf_pending
    /\ pdf_pc' = "done"
    /\ UNCHANGED <<pdf_fn, tmp_exists, tmp_path, images, page_idx, all_text, pdf_lang,
                   page_calls, detect_pages, pdf_pending, unlink, non_pdf_vars>>

NextPdf ==
    \/ CallExtractPdf
    \/ CallAutoPdf
    \/ CreateTmp
    \/ \E cause \in PdfErrors : CreateTmpRaises(cause)
    \/ WriteTmp
    \/ \E cause \in PdfErrors : WriteTmpRaises(cause)
    \/ ConvertReturns
    \/ \E cause \in PdfErrors : ConvertRaises(cause)
    \/ NoPages
    \/ AutoDetectReturns
    \/ \E cause \in PdfErrors : AutoDetectRaises(cause)
    \/ PageOcrReturns
    \/ \E cause \in PdfErrors : PageOcrRaises(cause)
    \/ PdfJoinPages
    \/ UnlinkOk
    \/ UnlinkRaises
    \/ UnlinkSkipped

SpecPdf == Init /\ [][NextPdf]_vars

\* ------------------------------------------------ Start AudioBook pipeline
\* the "Translate To" choices kept: none, one with TTS, one without
TranslationChoices == {"No Translation", "German", "Malay"}

\* TRANSLATION_LANGUAGES[name]
TRANSLATION_LANGUAGES(name) ==
    CASE name = "No Translation" -> "None"
      [] name = "German" -> "de"
      [] name = "Malay" -> "ms"

\* name in TTS_LANGUAGES
InTtsLanguages(name) == name = "German"

\* what the extraction step hands to the pipeline
ExtractedTexts ==
    {EMPTY, Rep("a", 5), Rep("b", max_length + 1),
     Cat(Rep("a", 3), Cat(SEP, Rep("b", 3 + MaxExtra)))}

\* what translate_text returns: None, "", or a text
TranslateResults(t) ==
    {None, [some |-> TRUE, s |-> EMPTY], [some |-> TRUE, s |-> Swap(t)]}

\* `if x:` for a string or None
Truthy(v) == v.some /\ v.s # EMPTY

\* the button is pressed with some choice of the widgets
ClickStart ==
    /\ pipe_pc = "idle"
    /\ \E name \in TranslationChoices, audio \in BOOLEAN :
       /\ translation_language' = name
       /\ translation_lang_code' = TRANSLATION_LANGUAGES(name)
       /\ enable_tts' = audio
    /\ pipe_pc' = "extract"
    /\ UNCHANGED <<extracted_text, translated_text, translate_outcome, tts_outcome,
                   events, non_pipe_vars>>

\* the extraction returns; if extracted_text: log the OCR activity
ExtractionReturns ==
    /\ pipe_pc = "extract"
    /\ \E t \in ExtractedTexts :
       /\ extracted_text' = t
       /\ events' = IF t # EMPTY THEN Append(events, "log_ocr") ELSE events
       /\ pipe_pc' = IF t # EMPTY THEN "gate" ELSE "no_text"
    /\ UNCHANGED <<translation_language, translation_lang_code, enable_tts,
                   translated_text, translate_outcome, tts_outcome, non_pipe_vars>>

\* the extraction raises: st.error, st.stop()
ExtractionRaises ==
    /\ pipe_pc = "extract"
    /\ events' = Append(events, "error_extraction")
    /\ pipe_pc' = "stopped"
    /\ UNCHANGED <<extracted_text, translation_language, translation_lang_code, enable_tts,
                   translated_text, translate_outcome, tts_outcome, non_pipe_vars>>

\* else: st.warning("No text found ...")
NoTextFound ==
    /\ pipe_pc = "no_text"
    /\ events' = Append(events, "warn_no_text")
    /\ pipe_pc' = "end"
    /\ UNCHANGED <<extracted_text, translation_language, translation_lang_code, enable_tts,
                   translated_text, translate_outcome, tts_outcome, non_pipe_vars>>

\* translated_text = None; if translation_lang_code:
TranslationGate ==
    /\ pipe_pc = "gate"
    /\ translated_text' = None
    /\ pipe_pc' = IF translation_lang_code # "None" THEN "translate" ELSE "downloads"
    /\ UNCHANGED <<extracted_text, translation_language, translation_lang_code, enable_tts,
                   translate_outcome, tts_outcome, events, non_pipe_vars>>

\* what follows a returned translation up to the TTS test: the log entry
\* (len(None) raises into the outer except), then the TTS branch
AfterTranslation(v) ==
    IF ~v.some
    THEN /\ events' = events \o <<"translate_call", "error_translation">>
         /\ pipe_pc' = "downloads"
    ELSE IF enable_tts /\ InTtsLanguages(translation_language)
    THEN /\ events' = events \o <<"translate_call", "log_translation">>
         /\ pipe_pc' = "tts"
    ELSE IF enable_tts
    THEN /\ events' = events \o <<"translate_call", "log_translation", "warn_tts_unavailable">>
         /\ pipe_pc' = "downloads"
    ELSE /\ events' = events \o <<"translate_call", "log_translation">>
         /\ pipe_pc' = "downloads"

\* translated_text = translate_text(extracted_text, translation_lang_code)
TranslationReturns ==
    /\ pipe_pc = "translate"
    /\ \E v \in TranslateResults(extracted_text) :
       /\ translated_text' = v
       /\ AfterTranslation(v)
    /\ translate_outcome' = "returned"
    /\ UNCHANGED <<extracted_text, translation_language, translation_lang_code, enable_tts,
                   tts_outcome, non_pipe_vars>>

\* translate_text raises: st.error, st.info; translated_text stays None
TranslationRaises ==
    /\ pipe_pc = "translate"
    /\ translate_outcome' = "raised"
    /\ events' = events \o <<"translate_call", "error_translation">>
    /\ pipe_pc' = "downloads"
    /\ UNCHANGED <<extracted_text, translation_language, translation_lang_code, enable_tts,
                   translated_text, tts_outcome, non_pipe_vars>>

\* text_to_speech returns: player, TTS log entry, audio download button
SpeechReturns ==
    /\ pipe_pc = "tts"
    /\ tts_outcome' = "returned"
    /\ events' = events \o <<"tts_call", "log_tts", "download_audio">>
    /\ pipe_pc' = "downloads"
    /\ UNCHANGED <<extracted_text, translation_language, translation_lang_code, enable_tts,
                   translated_text, translate_outcome, non_pipe_vars>>

\* text_to_speech raises: st.error("TTS error: ...")
SpeechRaises ==
    /\ pipe_pc = "tts"
    /\ tts_outcome' = "raised"
    /\ events' = events \o <<"tts_call", "error_tts">>
    /\ pipe_pc' = "downloads"
    /\ UNCHANGED <<extracted_text, translation_language, translation_lang_code, enable_tts,
                   translated_text, translate_outcome, non_pipe_vars>>

\* OfferDownloads testing the language choice instead of translated_text
OfferDownloadsByChoice ==
    /\ pipe_pc = "downloads"
    /\ events' = IF translation_lang_code # "None"
                 THEN events \o <<"download_original", "download_translated">>
                 ELSE Append(events, "download_original")
    /\ pipe_pc' = "end"
    /\ UNCHANGED <<extracted_text, translation_language, translation_lang_code, enable_tts,
                   translated_text, translate_outcome, tts_outcome, non_pipe_vars>>

\* the download buttons: the original always, the translation if translated_text
OfferDownloads ==
    /\ pipe_pc = "downloads"
    /\ events' = IF Truthy(translated_text)
                 THEN events \o <<"download_original", "download_translated">>
                 ELSE Append(events, "download_original")
    /\ pipe_pc' = "end"
    /\ UNCHANGED <<extracted_text, translation_language, translation_lang_code, enable_tts,
                   translated_text, translate_outcome, tts_outcome, non_pipe_vars>>

NextPipeline ==
    \/ ClickStart
    \/ ExtractionReturns
    \/ ExtractionRaises
    \/ NoTextFound
    \/ TranslationGate
    \/ TranslationReturns
    \/ TranslationRaises
    \/ SpeechReturns
    \/ SpeechRaises
    \/ OfferDownloads

SpecPipeline == Init /\ [][NextPipeline]_vars

\* ------------------------------------------- sign in, registration, sessions
\* what is typed in the sign-in form
LoginNames == {"", "admin", "alice"}

LoginPasswords == {"Admin#1", "Secret1!"}

\* what is typed in the registration form (valid username, email, password)
RegNames == {"alice", "bob"}

RegEmails == {"a@x.org", "b@x.org"}

RegPassword == "Secret1!"

\* SELECT id FROM users WHERE username = ?; fetchone() is not None
check_username_exists(username) ==
    \E i \in DOMAIN users : users[i].username = username

\* SELECT id FROM users WHERE email = ?; fetchone() is not None
check_email_exists(email) ==
    \E i \in DOMAIN users : users[i].email = email

\* SELECT ... WHERE username = ? AND password_hash = ?: the matching rows
Matching(username, password) ==
    { i \in DOMAIN users : /\ users[i].username = username
                           /\ users[i].password_hash = hash_password(password) }

\* the script runs again: the sign-in page and st.stop(), or the main app
Rerun(s) ==
    /\ reg_pc[s] = "idle"
    /\ view' = [view EXCEPT ![s] = IF session_state[s].logged_in THEN "main" ELSE "auth"]
    /\ UNCHANGED <<users, session_state, reg_pc, reg_form, reg_result, verified, non_auth_vars>>

\* "Enter Library": verify_user, then the four session keys and st.rerun()
SignIn(s) ==
    /\ view[s] = "auth"
    /\ reg_pc[s] = "idle"
    /\ \E u \in LoginNames, p \in LoginPasswords :
       IF u # "" /\ Matching(u, p) # {}
       THEN LET user == users[CHOOSE i \in Matching(u, p) : \A j \in Matching(u, p) : i <= j]
            IN  /\ session_state' = [session_state EXCEPT ![s] =
                       [logged_in |-> TRUE, user_id |-> user.id,
                        username |-> user.username, is_admin |-> user.is_admin]]
                /\ verified' = [verified EXCEPT ![s] = [username |-> u, password |-> p]]
                /\ view' = [view EXCEPT ![s] = "main"]
       ELSE UNCHANGED <<session_state, verified, view>>
    /\ UNCHANGED <<users, reg_pc, reg_form, reg_result, non_auth_vars>>

\* SignOut leaving is_admin as it was
SignOutKeepsAdmin(s) ==
    /\ view[s] = "main"
    /\ session_state' = [session_state EXCEPT ![s] =
           [LoggedOut EXCEPT !.is_admin = session_state[s].is_admin]]
    /\ view' = [view EXCEPT ![s] = "auth"]
    /\ UNCHANGED <<users, reg_pc, reg_form, reg_result, verified, non_auth_vars>>

\* "Exit Library": the four session keys are reset, st.rerun()
SignOut(s) ==
    /\ view[s] = "main"
    /\ session_state' = [session_state EXCEPT ![s] = LoggedOut]
    /\ view' = [view EXCEPT ![s] = "auth"]
    /\ UNCHANGED <<users, reg_pc, reg_form, reg_result, verified, non_auth_vars>>

\* "Create Account" with a valid form: check_username_exists(reg_username)
RegCheckUsername(s) ==
    /\ view[s] = "auth"
    /\ reg_pc[s] = "idle"
    /\ \E u \in RegNames, e \in RegEmails :
       /\ reg_form' = [reg_form EXCEPT ![s] = [username |-> u, email |-> e]]
       /\ IF check_username_exists(u)
          THEN /\ reg_result' = [reg_result EXCEPT ![s] = <<FALSE, "Username already taken">>]
               /\ UNCHANGED reg_pc
          ELSE /\ reg_result' = [reg_result EXCEPT ![s] = NoResult]
               /\ reg_pc' = [reg_pc EXCEPT ![s] = "check_email"]
    /\ UNCHANGED <<users, session_state, view, verified, non_auth_vars>>

\* elif check_email_exists(reg_email)
RegCheckEmail(s) ==
    /\ reg_pc[s] = "check_email"
    /\ IF check_email_exists(reg_form[s].email)
       THEN /\ reg_result' = [reg_result EXCEPT ![s] = <<FALSE, "Email already registered">>]
            /\ reg_pc' = [reg_pc EXCEPT ![s] = "idle"]
       ELSE /\ reg_pc' = [reg_pc EXCEPT ![s] = "create"]
            /\ UNCHANGED reg_result
    /\ UNCHANGED <<users, session_state, view, reg_form, verified, non_auth_vars>>

\* the row an INSERT INTO users (username, password_hash, email) adds
NewRow(form) ==
    [id |-> Len(users) + 1, username |-> form.username,
     password_hash |-> hash_password(RegPassword), email |-> form.email,
     is_admin |-> FALSE]

\* the INSERT of a table without the UNIQUE constraints
InsertUnconstrained(form) ==
    [ok |-> TRUE, rows |-> Append(users, NewRow(form)), message |-> "Account created successfully!"]

\* the INSERT under username TEXT UNIQUE, email TEXT UNIQUE, and how
\* create_user turns sqlite3.IntegrityError into its result
Insert(form) ==
    IF check_username_exists(form.username)
    THEN [ok |-> FALSE, rows |-> users, message |-> "Username already exists"]
    ELSE IF check_email_exists(form.email)
    THEN [ok |-> FALSE, rows |-> users, message |-> "Email already registered"]
    ELSE [ok |-> TRUE, rows |-> Append(users, NewRow(form)),
          message |-> "Account created successfully!"]

\* create_user(reg_username, reg_password, reg_email) returns
RegCreateUser(s) ==
    /\ reg_pc[s] = "create"
    /\ users' = Insert(reg_form[s]).rows
    /\ reg_result' = [reg_result EXCEPT ![s] =
           <<Insert(reg_form[s]).ok, Insert(reg_form[s]).message>>]
    /\ reg_pc' = [reg_pc EXCEPT ![s] = "idle"]
    /\ UNCHANGED <<session_state, view, reg_form, verified, non_auth_vars>>

\* create_user: any other exception (the database is locked) is returned as
\* (False, "Error: ...")
RegCreateUserError(s) ==
    /\ reg_pc[s] = "create"
    /\ reg_result' = [reg_result EXCEPT ![s] = <<FALSE, "Error: database is locked">>]
    /\ reg_pc' = [reg_pc EXCEPT ![s] = "idle"]
    /\ UNCHANGED <<users, session_state, view, reg_form, verified, non_auth_vars>>

NextAuth ==
    \/ \E s \in Sessions : Rerun(s)
    \/ \E s \in Sessions : SignIn(s)
    \/ \E s \in Sessions : SignOut(s)
    \/ \E s \in Sessions : RegCheckUsername(s)
    \/ \E s \in Sessions : RegCheckEmail(s)
    \/ \E s \in Sessions : RegCreateUser(s)
    \/ \E s \in Sessions : RegCreateUserError(s)

SpecAuth == Init /\ [][NextAuth]_vars

\* ================================================================ claims
Last(s) == s[Len(s)]

InDetect == fn = "auto_detect_and_extract"

InTranslate == fn = "translate_text"

\* ------------------------------------------------------------------- C1
\* C1: when the first candidate's trimmed OCR text is longer than 20
\* characters and detection on it succeeds, no OCR call is made for any later
\* candidate nor for the fallback, and the result is the first candidate with
\* its trimmed text.
C1_FirstCandidateWins ==
    (/\ InDetect
     /\ detect_calls # <<>>
     /\ detect_calls[1] = [lang |-> priority_languages[1], ok |-> TRUE])
    => /\ len(strip(text)) > meaningful_threshold
       /\ ocr_calls = <<priority_languages[1]>>
       /\ fallback = "none"
       /\ pc \in {"after_loop", "done"}
       /\ pc = "done" => ret = <<strip(text), priority_languages[1]>>

\* the first candidate won with text that had whitespace to trim
C1_Witness ==
    /\ InDetect
    /\ pc = "done"
    /\ detect_calls = <<[lang |-> priority_languages[1], ok |-> TRUE]>>
    /\ text # strip(text)
    /\ ret = <<strip(text), priority_languages[1]>>

\* ------------------------------------------------------------------- C2
\* C2 as stated: every candidate whose trimmed OCR text is longer than 20
\* characters gets a detection attempt, whatever earlier candidates produced,
\* and a successful detection makes that candidate the winner.
C2_DetectWheneverOverThreshold ==
    /\ (/\ InDetect
        /\ pc = "ocr"
        /\ ocr_outcome = "returned"
        /\ len(strip(text)) > meaningful_threshold)
       => (detect_calls # <<>> /\ Last(detect_calls).lang = Last(ocr_calls))
    /\ (InDetect /\ detect_calls # <<>> /\ Last(detect_calls).ok)
       => Last(ocr_calls) = Last(detect_calls).lang

\* C2 amended: a candidate gets a detection attempt exactly when its trimmed
\* OCR text is longer than 20 characters and strictly longer than the running
\* best text; a successful detection stops the loop at once and that
\* candidate is returned with its trimmed text.
C2_DetectWhenLongerThanBest ==
    /\ [][ (/\ pc = "ocr"
            /\ Len(ocr_calls') = Len(ocr_calls) + 1
            /\ ocr_outcome' = "returned")
           => ((pc' = "detect")
               <=> (/\ len(strip(text')) > meaningful_threshold
                    /\ len(strip(text')) > len(best_text))) ]_vars
    /\ [][ pc = "detect"
           => /\ detect_calls' =
                    Append(detect_calls,
                           [lang |-> Last(ocr_calls), ok |-> Last(detect_calls').ok])
              /\ Last(detect_calls').ok
                 => /\ pc' = "after_loop"
                    /\ best_text' = strip(text)
                    /\ best_lang' = Last(ocr_calls) ]_vars
    /\ []( (InDetect /\ detect_calls # <<>> /\ Last(detect_calls).ok)
           => /\ pc \in {"after_loop", "done"}
              /\ Last(ocr_calls) = Last(detect_calls).lang
              /\ fallback = "none"
              /\ pc = "done" => ret = <<strip(text), Last(detect_calls).lang>> )

\* a later candidate won after an earlier one failed detection and at least
\* one candidate in between got no detection attempt
C2_Witness ==
    /\ InDetect
    /\ pc = "done"
    /\ Len(detect_calls) = 2
    /\ ~detect_calls[1].ok
    /\ detect_calls[2].ok
    /\ Len(ocr_calls) > 3
    /\ ret = <<strip(text), Last(ocr_calls)>>

\* ------------------------------------------------------------------- C3
\* the chunk is one paragraph that is itself longer than max_length
SingleOversized(chunk) ==
    \E j \in DOMAIN paragraphs :
        /\ len(paragraphs[j]) > max_length
        /\ chunk \in {paragraphs[j], Closed(paragraphs[j])}

\* C3: in the chunked path every chunk passed to the provider has
\* length <= max_length, unless it is a single paragraph longer than
\* max_length.
C3_ChunksWithinMaxLength ==
    (InTranslate /\ len(text) > max_length)
    => \A i \in DOMAIN provider_calls :
           \/ len(provider_calls[i]) <= max_length
           \/ SingleOversized(provider_calls[i])

\* ------------------------------------------------------------------- C4
\* C4: joining the chunks handed to the provider with "\n\n" gives back the
\* input text, and with a provider that echoes its input translate_text
\* returns the input text.
C4_SplitRoundTrip ==
    (InTranslate /\ pc = "done")
    => /\ join(SEP, provider_calls) = text
       /\ provider = "echo" => ret = text

NoEarlyExit == detect_calls = <<>> \/ ~Last(detect_calls).ok

\* C6: when the loop finishes without an early exit and some candidate
\* returned non-empty trimmed text, the result is the longest such text
\* (earliest candidate on ties) with the candidate that produced it.
C6_ReturnsLongest ==
    (InDetect /\ pc = "done" /\ NoEarlyExit /\ longest.text # EMPTY)
    => ret = <<longest.text, longest.lang>>

\* ------------------------------------------------------------------- C7
\* C7: the fallback OCR call is made exactly when no candidate returned
\* non-empty trimmed text.
C7_FallbackIffNothingProduced ==
    (InDetect /\ pc \in {"done", "raised"})
    => ((fallback # "none") <=> (longest.text = EMPTY))

\* ------------------------------------------------------------------- C8
\* C8: when every candidate's OCR call raised or returned text that is empty
\* after trimming, exactly one more OCR call is made, with "eng"; the result
\* is (its trimmed output, "eng"); an error leaves the function only when
\* that fallback call raises.
C8_FallbackAfterTotalFailure ==
    /\ (InDetect /\ pc \in {"done", "raised"} /\ longest.text = EMPTY)
       => /\ ocr_calls = priority_languages \o <<"eng">>
          /\ detect_calls = <<>>
          /\ pc = "done" => (fallback = "ok" /\ ret = <<strip(fallback_text), "eng">>)
          /\ pc = "raised" => (fallback = "raise" /\ ret = "none")
    /\ (InDetect /\ pc = "raised")
       => (fallback = "raise" /\ ocr_outcome = "raised" /\ Last(ocr_calls) = "eng")

\* after ten failed candidates the fallback returned text with whitespace to
\* trim
C8_Witness ==
    /\ InDetect
    /\ pc = "done"
    /\ longest.text = EMPTY
    /\ Len(ocr_calls) = Len(priority_languages) + 1
    /\ fallback_text # strip(fallback_text)
    /\ ret = <<strip(fallback_text), "eng">>

\* ------------------------------------------------------------------- C9
\* C9: when the provider raises on any call, translate_text raises an error
\* whose message contains the cause's message, returns nothing (no partial
\* translation) and makes no further provider call.
C9_ProviderFailureAborts ==
    /\ []( (InTranslate /\ provider_error # "none")
           => /\ pc = "raised"
              /\ ret = "none"
              /\ err # "none"
              /\ \E i \in DOMAIN err : err[i] = provider_error )
    /\ []( (InTranslate /\ pc = "raised") => provider_error # "none" )
    /\ [][ provider_error # "none" => provider_calls' = provider_calls ]_vars

\* the provider raised on a later chunk, with translations already collected
\* and paragraphs still unpacked
C9_Witness ==
    /\ InTranslate
    /\ pc = "raised"
    /\ translated_paragraphs # <<>>
    /\ para_idx < Len(paragraphs)
    /\ ret = "none"

\* ------------------------------------------------------------------ C10
\* C10 as stated, seen after a flush: a new buffer is started with a
\* paragraph only if buffer + separator + paragraph would exceed max_length
\* (the flushed chunk already ends with the separator).
C10_FlushOnlyWhenExceeding ==
    (/\ InTranslate
     /\ pc = "pack"
     /\ para_idx > 2
     /\ current_chunk = Closed(paragraphs[para_idx - 1]))
    => len(Last(provider_calls)) + len(paragraphs[para_idx - 1]) > max_length

\* C10 amended: with a non-empty buffer, the next paragraph is appended if and
\* only if buffer + separator + paragraph is strictly shorter than max_length;
\* otherwise the buffer is flushed as a chunk and a new buffer starts with
\* that paragraph.  A paragraph that would bring it to exactly max_length
\* starts a new chunk.
C10_AppendIffStrictlyShorter ==
    [][ (pc = "pack" /\ para_idx <= Len(paragraphs) /\ current_chunk # EMPTY)
        => IF len(current_chunk) + len(para) < max_length
           THEN /\ current_chunk' = Cat(current_chunk, Cat(para, SEP))
                /\ provider_calls' = provider_calls
                /\ para_idx' = para_idx + 1
                /\ pc' = "pack"
           ELSE /\ provider_calls' = Append(provider_calls, current_chunk)
                /\ pc' \in {"pack", "raised"}
                /\ pc' = "pack"
                   => /\ current_chunk' = Cat(para, SEP)
                      /\ para_idx' = para_idx + 1 ]_vars

\* a paragraph that would have brought the buffer to exactly max_length
\* started a new chunk
C10_Witness ==
    /\ InTranslate
    /\ pc = "pack"
    /\ para_idx > 2
    /\ current_chunk = Closed(paragraphs[para_idx - 1])
    /\ len(Last(provider_calls)) + len(paragraphs[para_idx - 1]) = max_length

\* ------------------------------------------------------------------ C11
\* the paragraphs, each followed by the separator, one after the other
RECURSIVE ConcatClosed(_)
ConcatClosed(paras) ==
    IF paras = <<>> THEN EMPTY
    ELSE Cat(Cat(paras[1], SEP), ConcatClosed(Tail(paras)))

\* the chunks cut the paragraph sequence into contiguous non-empty groups:
\* the first chunk is the first k paragraphs, the rest cut the remainder
RECURSIVE Partitioned(_, _)
Partitioned(chunks, paras) ==
    IF chunks = <<>> THEN paras = <<>>
    ELSE \E k \in 1 .. Len(paras) :
            /\ chunks[1] = ConcatClosed(SubSeq(paras, 1, k))
            /\ Partitioned(Tail(chunks), SubSeq(paras, k + 1, Len(paras)))

\* the chunks sent so far followed by the buffer being filled
ChunksSoFar ==
    IF current_chunk = EMPTY THEN provider_calls
    ELSE Append(provider_calls, current_chunk)

\* C11: in the chunked path the chunks sent to the provider cut the sequence
\* of paragraphs of text.split("\n\n") into contiguous groups: every
\* paragraph is whole in exactly one chunk, in order, none dropped,
\* duplicated or split.
C11_ChunksPartitionParagraphs ==
    /\ (InTranslate /\ pc = "pack")
       => Partitioned(ChunksSoFar, SubSeq(paragraphs, 1, para_idx - 1))
    /\ (InTranslate /\ pc = "done" /\ len(text) > max_length)
       => (paragraphs = split(text) /\ Partitioned(provider_calls, paragraphs))

\* a text of at least three paragraphs went out as several chunks, one of
\* them holding more than one paragraph
C11_Witness ==
    /\ InTranslate
    /\ pc = "done"
    /\ Len(paragraphs) >= 3
    /\ Len(provider_calls) >= 2
    /\ Len(provider_calls) < Len(paragraphs)
    /\ Partitioned(provider_calls, paragraphs)

\* ------------------------------------------------------------------ C12
RECURSIVE ConcatAll(_)
ConcatAll(parts) ==
    IF parts = <<>> THEN EMPTY ELSE Cat(parts[1], ConcatAll(Tail(parts)))

\* C12: in the chunked path the provider is called once per flushed chunk, in
\* chunk order; the i-th collected translation is the translation of the i-th
\* chunk, and the returned string is these translations joined with "\n\n".
C12_TranslationsInChunkOrder ==
    /\ (InTranslate /\ pc \in {"pack", "done"} /\ len(text) > max_length)
       => /\ Len(translated_paragraphs) = Len(provider_calls)
          /\ \A i \in DOMAIN provider_calls :
                translated_paragraphs[i] = Translate(provider, provider_calls[i])
    /\ (InTranslate /\ pc = "done" /\ len(text) > max_length)
       => /\ ret = join(SEP, translated_paragraphs)
          /\ ConcatAll(provider_calls) = ConcatClosed(paragraphs)

\* two different chunks were translated by a provider that changes the text
C12_Witness ==
    /\ InTranslate
    /\ pc = "done"
    /\ provider = "swap"
    /\ Len(provider_calls) >= 2
    /\ provider_calls[1] # provider_calls[2]
    /\ translated_paragraphs[1] # provider_calls[1]
    /\ ret = join(SEP, translated_paragraphs)

\* ------------------------------------------------------------------ C13
\* C13: for a text of length <= max_length (4500 included) translate_text
\* makes exactly one provider call, with the whole unmodified text, and
\* returns that call's result unchanged; it never splits.
C13_SingleCallShortcut ==
    /\ (InTranslate /\ len(text) <= max_length)
       => /\ pc \in {"translate", "done", "raised"}
          /\ paragraphs = <<>>
          /\ pc = "translate" => provider_calls = <<>>
          /\ pc \in {"done", "raised"} => provider_calls = <<text>>
          /\ pc = "done" => ret = Translate(provider, text)
    /\ (InTranslate /\ len(text) > max_length)
       => pc \in {"translate", "pack", "done", "raised"}

\* a text of exactly max_length characters was translated in one call
C13_Witness ==
    /\ InTranslate
    /\ pc = "done"
    /\ len(text) = max_length
    /\ provider_calls = <<text>>
    /\ ret = Translate(provider, text)

\* ------------------------------------------------------------------ C14
\* C14: when the first candidate returns trimmed text of at most 20
\* characters and the second returns more than 20 characters that pass
\* detection, the second candidate wins with its trimmed text and no third
\* candidate is tried.
C14_SecondCandidateWins ==
    /\ [][ (/\ pc = "ocr"
            /\ Len(ocr_calls) = 1
            /\ first_len \in 0 .. meaningful_threshold
            /\ Len(ocr_calls') = 2
            /\ ocr_outcome' = "returned"
            /\ len(strip(text')) > meaningful_threshold)
           => (pc' = "detect" /\ Last(ocr_calls') = priority_languages[2]) ]_vars
    /\ []( (/\ InDetect
            /\ first_len \in 0 .. meaningful_threshold
            /\ detect_calls # <<>>
            /\ detect_calls[1] = [lang |-> priority_languages[2], ok |-> TRUE])
           => /\ ocr_calls = <<priority_languages[1], priority_languages[2]>>
              /\ len(strip(text)) > meaningful_threshold
              /\ fallback = "none"
              /\ pc \in {"after_loop", "done"}
              /\ pc = "done" => ret = <<strip(text), priority_languages[2]>> )

\* the first candidate returned a short non-empty text and the second won
C14_Witness ==
    /\ InDetect
    /\ pc = "done"
    /\ first_len > 0
    /\ first_len <= meaningful_threshold
    /\ detect_calls = <<[lang |-> priority_languages[2], ok |-> TRUE]>>
    /\ ret = <<strip(text), priority_languages[2]>>

\* ------------------------------------------------------------------ C15
\* C15: five paragraphs of equal length L separated by blank lines, two of
\* which fit under max_length and three of which do not (L = 2000 among
\* them), go to the provider as exactly three chunks holding paragraphs
\* {1,2}, {3,4} and {5}.
C15_FiveEqualParagraphs ==
    (InTranslate /\ text \in ScenarioTexts /\ pc = "done")
    => LET P == <<text[1]>>
           one == Cat(P, SEP)
           two == Cat(one, one)
       IN  /\ paragraphs = <<P, P, P, P, P>>
           /\ provider_calls = <<two, two, one>>

\* the five paragraphs of 2000 characters were translated
C15_Witness ==
    /\ InTranslate
    /\ pc = "done"
    /\ text = EqualParas(5, 2000)
    /\ Len(provider_calls) = 3

\* ------------------------------------------------------------------ C16
\* C16: a paragraph longer than max_length is sent as one chunk whose content
\* is exactly that paragraph, nothing added or removed, and no empty chunk is
\* sent.
C16_OversizedSentAsIs ==
    (InTranslate /\ pc = "done" /\ len(text) > max_length)
    => /\ \A j \in DOMAIN paragraphs :
              len(paragraphs[j]) > max_length
              => \E i \in DOMAIN provider_calls : provider_calls[i] = paragraphs[j]
       /\ \A i \in DOMAIN provider_calls : provider_calls[i] # EMPTY

\* ------------------------------------------------------------------ C17
\* C17: an exception of the OCR engine for a candidate is swallowed: the
\* loop goes on with the next candidate in priority order and the running
\* best text and language are unchanged.
C17_OcrExceptionSwallowed ==
    /\ [][ (/\ pc = "ocr"
            /\ Len(ocr_calls') = Len(ocr_calls) + 1
            /\ ocr_outcome' = "raised")
           => /\ pc' = "ocr"
              /\ lang_idx' = lang_idx + 1
              /\ best_text' = best_text
              /\ best_lang' = best_lang
              /\ ret' = ret ]_vars
    /\ []( (InDetect /\ pc = "ocr")
           => ocr_calls = SubSeq(priority_languages, 1, lang_idx - 1) )

\* a candidate raised after an earlier one had set the running best, and
\* candidates remain
C17_Witness ==
    /\ InDetect
    /\ pc = "ocr"
    /\ ocr_outcome = "raised"
    /\ best_text # EMPTY
    /\ best_lang # priority_languages[lang_idx - 1]
    /\ lang_idx <= Len(priority_languages)

\* ------------------------------------------------------------------ C18
\* C18: when detection raises for a candidate whose trimmed text is longer
\* than 20 characters and than the running best, that trimmed text and
\* language become the running best and the loop goes on with the next
\* candidate: no early exit, no error.
C18_DetectionSoftFailure ==
    /\ []( (InDetect /\ pc = "detect")
           => /\ len(strip(text)) > meaningful_threshold
              /\ len(strip(text)) > len(best_text) )
    /\ [][ (/\ pc = "detect"
            /\ Len(detect_calls') = Len(detect_calls) + 1
            /\ ~Last(detect_calls').ok)
           => /\ best_text' = strip(text)
              /\ best_lang' = priority_languages[lang_idx]
              /\ pc' = "ocr"
              /\ lang_idx' = lang_idx + 1
              /\ ret' = "none" ]_vars

\* detection has just failed on a padded text that replaced an earlier best
C18_Witness ==
    /\ InDetect
    /\ pc = "ocr"
    /\ Len(detect_calls) = 2
    /\ ~Last(detect_calls).ok
    /\ Last(ocr_calls) = Last(detect_calls).lang
    /\ best_text = strip(text)
    /\ best_text # text
    /\ best_lang = Last(detect_calls).lang

\* ------------------------------------------------------------------ C19
Candidates == { priority_languages[i] : i \in DOMAIN priority_languages }

\* C19: the language returned by auto_detect_and_extract is always one of
\* the candidate list or the fallback language "eng".
C19_ResultLanguageKnown ==
    InDetect
    => /\ best_lang \in Candidates \cup {"eng"}
       /\ pc = "done" => ret[2] \in Candidates \cup {"eng"}

\* the last candidate of the list won
C19_Witness ==
    /\ InDetect
    /\ pc = "done"
    /\ ret[2] = priority_languages[Len(priority_languages)]

\* ------------------------------------------------------------------ C20
\* s has no whitespace at either end
Trimmed(s) == s = EMPTY \/ (~IsSpace(s[1].c) /\ ~IsSpace(s[Len(s)].c))

\* C20: the text returned by auto_detect_and_extract is whitespace-trimmed on
\* every return path: early exit, best so far after the full loop, fallback.
C20_ResultTrimmed ==
    (InDetect /\ pc = "done")
    => /\ Trimmed(ret[1])
       /\ fallback = "ok" => ret[1] = strip(fallback_text)
       /\ (fallback = "none" /\ ~NoEarlyExit) => ret[1] = strip(text)
       /\ (fallback = "none" /\ NoEarlyExit) => ret[1] = longest.text

\* the fallback call returned non-blank text with whitespace around it
C20_Witness ==
    /\ InDetect
    /\ pc = "done"
    /\ fallback = "ok"
    /\ ret[1] # EMPTY
    /\ ret[1] # fallback_text

\* ------------------------------------------------------------------ C21
\* the candidates OCR'd by the loop, without the call made after the loop
LoopCalls ==
    IF fallback = "none" THEN ocr_calls
    ELSE SubSeq(ocr_calls, 1, Len(ocr_calls) - 1)

\* position of a candidate in the priority list
Rank(lang) == CHOOSE i \in DOMAIN priority_languages : priority_languages[i] = lang

\* C21: inside the loop the OCR calls follow the fixed candidate list in
\* order, each candidate at most once and none skipped; a candidate's
\* detection, when attempted, comes right after its OCR call and before the
\* next candidate's; the loop is left only after the last candidate or after
\* a successful detection.
C21_PriorityOrder ==
    /\ []( InDetect
           => /\ \E k \in 0 .. Len(priority_languages) :
                    LoopCalls = SubSeq(priority_languages, 1, k)
              /\ \A i \in DOMAIN detect_calls :
                    /\ Rank(detect_calls[i].lang) <= Len(LoopCalls)
                    /\ \A j \in DOMAIN detect_calls :
                          i < j => Rank(detect_calls[i].lang) < Rank(detect_calls[j].lang)
              /\ pc = "ocr" => Len(LoopCalls) = lang_idx - 1
              /\ pc = "detect"
                 => /\ Last(ocr_calls) = lang_code
                    /\ \A i \in DOMAIN detect_calls : detect_calls[i].lang # lang_code
              /\ pc \in {"after_loop", "done", "raised"}
                 => \/ LoopCalls = priority_languages
                    \/ /\ detect_calls # <<>>
                       /\ Last(detect_calls) = [lang |-> Last(LoopCalls), ok |-> TRUE] )
    /\ [][ (InDetect /\ pc = "detect")
           => /\ ocr_calls' = ocr_calls
              /\ Len(detect_calls') = Len(detect_calls) + 1
              /\ Last(detect_calls').lang = Last(ocr_calls) ]_vars
    /\ [][ (InDetect /\ pc = "ocr" /\ Len(ocr_calls') = Len(ocr_calls) + 1)
           => /\ Last(ocr_calls') = priority_languages[Len(ocr_calls) + 1]
              /\ detect_calls' = detect_calls ]_vars

\* the whole list was tried, with a raising candidate and two failed
\* detections on the way
C21_Witness ==
    /\ InDetect
    /\ pc = "after_loop"
    /\ ocr_calls = priority_languages
    /\ Len(detect_calls) = 2
    /\ ocr_outcome = "raised"
    /\ first_len = -2

\* ------------------------------------------------------------------ C23
\* steps left before the invocation ends, at most
StepsLeft ==
    CASE pc = "idle" -> 3 * Len(priority_languages) + 2 * max_length
      [] pc \in {"done", "raised"} -> 0
      [] pc = "after_loop" -> 1
      [] pc = "ocr" -> 3 * (Len(priority_languages) + 1 - lang_idx) + 2
      [] pc = "detect" -> 3 * (Len(priority_languages) + 1 - lang_idx) + 1
      [] pc = "translate" -> Len(split(text)) + 3
      [] pc = "pack" -> Len(paragraphs) + 2 - para_idx

\* C23: every invocation ends: each step brings the end nearer. The detector
\* makes at most one OCR call per candidate plus at most one call after the
\* loop, and at most one detection call per candidate; the translator makes
\* one provider call per chunk, at most as many as there are paragraphs.
C23_BoundedTermination ==
    /\ []( /\ StepsLeft >= 0
           /\ Len(LoopCalls) <= Len(priority_languages)
           /\ Len(ocr_calls) <= Len(LoopCalls) + 1
           /\ Len(detect_calls) <= Len(LoopCalls)
           /\ \A i, j \in DOMAIN detect_calls :
                 i # j => detect_calls[i].lang # detect_calls[j].lang
           /\ (InTranslate /\ len(text) <= max_length) => Len(provider_calls) <= 1
           /\ (InTranslate /\ pc = "pack")
              => Len(ChunksSoFar) <= para_idx - 1
           /\ (InTranslate /\ len(text) > max_length /\ pc \in {"done", "raised"})
              => /\ Len(provider_calls) <= Len(paragraphs)
                 /\ pc = "done" => Len(provider_calls) = Len(translated_paragraphs) )
    /\ [][ StepsLeft' < StepsLeft ]_vars

\* the detector returned after trying every candidate, with detection
\* attempted twice
C23_Witness ==
    /\ InDetect
    /\ pc = "done"
    /\ Len(ocr_calls) = Len(priority_languages)
    /\ Len(detect_calls) = 2
    /\ StepsLeft = 0

\* ------------------------------------------------------------------ C30
\* s ends with "\n\n": its last run is of at least two newlines
EndsWithSep(s) ==
    /\ s # EMPTY
    /\ s[Len(s)].c = NL
    /\ s[Len(s)].n >= len(SEP)

\* the chunks cut the paragraphs into groups, and every group of two or more
\* paragraphs is shorter than max_length + 2
RECURSIVE GroupsWithinLimit(_, _)
GroupsWithinLimit(chunks, paras) ==
    IF chunks = <<>> THEN paras = <<>>
    ELSE \E k \in 1 .. Len(paras) :
            /\ chunks[1] = ConcatClosed(SubSeq(paras, 1, k))
            /\ k >= 2 => len(chunks[1]) < max_length + 2
            /\ GroupsWithinLimit(Tail(chunks), SubSeq(paras, k + 1, Len(paras)))

\* C30: in the chunked path every chunk passed to the provider ends with the
\* "\n\n" appended after its last paragraph, every chunk of two or more
\* paragraphs is strictly shorter than max_length + 2, and the returned
\* string joins the translations of those chunks with "\n\n".
C30_ChunkShape ==
    /\ (InTranslate /\ len(text) > max_length)
       => \A i \in DOMAIN provider_calls : EndsWithSep(provider_calls[i])
    /\ (InTranslate /\ pc = "pack")
       => GroupsWithinLimit(ChunksSoFar, SubSeq(paragraphs, 1, para_idx - 1))
    /\ (InTranslate /\ len(text) > max_length /\ pc = "done")
       => /\ GroupsWithinLimit(provider_calls, paragraphs)
          /\ ret = join(SEP, [i \in DOMAIN provider_calls |->
                                 Translate(provider, provider_calls[i])])

\* a chunk of two paragraphs and max_length + 1 characters was sent, and the
\* echoed result has the separator twice between the chunks
C30_Witness ==
    /\ InTranslate
    /\ pc = "done"
    /\ provider = "echo"
    /\ Len(provider_calls) = 2
    /\ Len(paragraphs) = 3
    /\ len(provider_calls[1]) = max_length + 1
    /\ ret = Cat(provider_calls[1], Cat(SEP, provider_calls[2]))

\* ------------------------------------------------------------------ C27
\* s begins with p
RECURSIVE StartsWith(_, _)
StartsWith(s, p) ==
    IF p = <<>> THEN TRUE
    ELSE IF s = <<>> \/ s[1].c # p[1].c \/ s[1].n < p[1].n THEN FALSE
    ELSE IF Len(p) = 1 THEN TRUE
    ELSE s[1].n = p[1].n /\ StartsWith(Tail(s), Tail(p))

\* C27: text_to_speech never passes more than 3003 characters to the TTS
\* engine: a text of at most 3000 characters is passed unchanged, a longer
\* one is replaced by its first 3000 characters followed by "...".
C27_TtsLengthLimit ==
    tts_engine_text # "none"
    => /\ len(tts_engine_text) <= max_tts_length + 3
       /\ len(tts_arg) <= max_tts_length
          => (tts_engine_text = tts_arg /\ ~tts_warned)
       /\ len(tts_arg) > max_tts_length
          => /\ len(tts_engine_text) = max_tts_length + 3
             /\ \E head \in {Take(tts_arg, max_tts_length)} :
                   /\ len(head) = max_tts_length
                   /\ StartsWith(tts_arg, head)
                   /\ tts_engine_text = Cat(head, Ellipsis)
             /\ tts_warned
       /\ tts_pc = "done" => tts_ret = <<"audio", tts_engine_text>>

\* a text of 3001 characters plus a tail reached the engine cut to 3003
C27_Witness ==
    /\ tts_pc = "done"
    /\ len(tts_arg) > max_tts_length + 1
    /\ tts_engine_text # "none"
    /\ tts_engine_text # tts_arg
    /\ len(tts_engine_text) = max_tts_length + 3

\* ------------------------------------------------------------------ C24
\* C24: extract_text_from_pdf deletes the temporary PDF it created on every
\* exit path, so no such file remains after it returns or raises, and a
\* failing deletion is swallowed without replacing the outcome.
C24_TempFileRemoved ==
    (pdf_fn = "extract_text_from_pdf" /\ pdf_pc = "done")
    => /\ ~tmp_exists
       /\ pdf_outcome = pdf_pending

\* ------------------------------------------------------------------ C26
\* the labelled pages the calls made so far should have produced
RECURSIVE KeptPages(_)
KeptPages(calls) ==
    IF calls = <<>> THEN <<>>
    ELSE LET c == calls[Len(calls)]
             before == KeptPages(SubSeq(calls, 1, Len(calls) - 1))
         IN  IF c.out # "raised" /\ strip(c.out) # EMPTY
             THEN Append(before, Label(c.page, strip(c.out)))
             ELSE before

\* C26: on a PDF in Auto-detect mode the language is detected once, on page
\* 1; then every page from page 1 on is OCR'd with that language; pages whose
\* trimmed text is empty are left out of the joined output and every kept
\* page carries its own 1-based page number.
C26_AutoPdfFirstPageLanguage ==
    pdf_fn = "auto_pdf"
    => /\ Len(detect_pages) <= 1
       /\ \A i \in DOMAIN detect_pages : detect_pages[i] = 1
       /\ page_calls # <<>> => (detect_pages = <<1>> /\ pdf_lang \in PdfLangs)
       /\ \A i \in DOMAIN page_calls :
             /\ page_calls[i].page = i
             /\ page_calls[i].lang = pdf_lang
       /\ all_text = KeptPages(page_calls)
       /\ (pdf_pc = "done" /\ pdf_outcome[1] = "return")
          => /\ Len(page_calls) = images
             /\ pdf_outcome[2] = PdfJoin(KeptPages(page_calls))

\* a two-page PDF whose first page is blank: only page 2 is in the output,
\* labelled 2
C26_Witness ==
    /\ pdf_fn = "auto_pdf"
    /\ pdf_pc = "done"
    /\ pdf_outcome[1] = "return"
    /\ images = 2
    /\ Len(page_calls) = 2
    /\ strip(page_calls[1].out) = EMPTY
    /\ all_text = <<Label(2, strip(page_calls[2].out))>>
    /\ page_calls[2].out # strip(page_calls[2].out)

\* ------------------------------------------------------------------ C25
\* e occurs in the sequence
Occurs(e, seq) == \E i \in DOMAIN seq : seq[i] = e

\* every a in the sequence has a b somewhere before it
Precedes(b, a, seq) ==
    \A i \in DOMAIN seq : seq[i] = a => \E j \in 1 .. (i - 1) : seq[j] = b

\* C25: translation is attempted only with non-empty extracted text and a
\* selected target language; TTS generation and its log entry come only
\* after translate_text returned; when translate_text raises the failure is
\* reported, the original text is still offered for download and no
\* translated download is offered.
C25_PipelineGating ==
    /\ Occurs("translate_call", events)
       => (extracted_text # EMPTY /\ translation_lang_code # "None")
    /\ Occurs("tts_call", events)
       => (translate_outcome = "returned" /\ translated_text.some)
    /\ Precedes("translate_call", "tts_call", events)
    /\ Precedes("log_translation", "tts_call", events)
    /\ Precedes("tts_call", "log_tts", events)
    /\ Occurs("log_tts", events) => tts_outcome = "returned"
    /\ translate_outcome = "raised"
       => /\ pipe_pc \in {"downloads", "end"}
          /\ Occurs("error_translation", events)
          /\ ~Occurs("tts_call", events)
          /\ ~Occurs("download_translated", events)
          /\ translated_text = None
          /\ pipe_pc = "end" => Occurs("download_original", events)

\* translate_text raised on a non-empty text and the run ended with the
\* original download offered
C25_Witness ==
    /\ pipe_pc = "end"
    /\ translate_outcome = "raised"
    /\ enable_tts
    /\ InTtsLanguages(translation_language)
    /\ events = <<"log_ocr", "translate_call", "error_translation", "download_original">>

\* ------------------------------------------------------------------ C28
\* C28: after any sequence of sign-ins, sign-outs and reruns, logged_in is
\* true only with the user_id, username and is_admin of a users row whose
\* username and password were verified; when logged_in is false, user_id and
\* username are None and is_admin is false; the main section is shown only
\* in a run where logged_in is true.
C28_SessionInvariant ==
    \A s \in Sessions :
       /\ session_state[s].logged_in
          => \E i \in DOMAIN users :
                /\ session_state[s].user_id = users[i].id
                /\ session_state[s].username = users[i].username
                /\ session_state[s].is_admin = users[i].is_admin
                /\ verified[s].username = users[i].username
                /\ hash_password(verified[s].password) = users[i].password_hash
       /\ ~session_state[s].logged_in
          => /\ session_state[s].user_id = NoId
             /\ session_state[s].username = NoName
             /\ ~session_state[s].is_admin
       /\ view[s] = "main" => session_state[s].logged_in

\* the administrator has signed out of one session while a user registered in
\* the other session is signed in there
C28_Witness ==
    /\ verified[1].username = "admin"
    /\ session_state[1] = LoggedOut
    /\ view[1] = "auth"
    /\ session_state[2].logged_in
    /\ session_state[2].username = "alice"
    /\ session_state[2].user_id = 2
    /\ view[2] = "main"

\* ------------------------------------------------------------------ C29
\* C29: when two sessions have both passed check_username_exists and
\* check_email_exists for the same username (or email) and then call
\* create_user, at most one insert succeeds; the other call returns
\* (False, message) without raising, and the users table never holds two
\* rows with the same username or the same email.
C29_UniqueUnderRace ==
    /\ []( \A i, j \in DOMAIN users :
              i # j => /\ users[i].username # users[j].username
                       /\ users[i].email # users[j].email )
    /\ [][ \A s \in Sessions :
             (reg_pc[s] = "create" /\ reg_pc'[s] = "idle")
             => /\ Len(reg_result'[s]) = 2
                /\ reg_result'[s][1] \in BOOLEAN
                /\ reg_result'[s][1]
                   => /\ Len(users') = Len(users) + 1
                      /\ users'[Len(users')].username = reg_form[s].username
                      /\ users'[Len(users')].email = reg_form[s].email
                /\ ~reg_result'[s][1] => users' = users
                /\ (\/ check_username_exists(reg_form[s].username)
                    \/ check_email_exists(reg_form[s].email))
                   => ~reg_result'[s][1] ]_vars
    /\ [][ \A s, t \in Sessions :
             (/\ s # t
              /\ reg_pc[s] = "create"
              /\ reg_pc[t] = "create"
              /\ \/ reg_form[s].username = reg_form[t].username
                 \/ reg_form[s].email = reg_form[t].email
              /\ reg_pc'[s] = "idle"
              /\ reg_result'[s][1])
             => /\ reg_pc'[t] = "create"
                /\ reg_form'[t] = reg_form[t]
                /\ \/ check_username_exists(reg_form[t].username)'
                   \/ check_email_exists(reg_form[t].email)' ]_vars

\* both sessions passed the checks for the same username; the first insert
\* succeeded and the second create_user returned (False, ...)
C29_Witness ==
    /\ reg_form[1].username = reg_form[2].username
    /\ reg_form[1].email # reg_form[2].email
    /\ reg_result[1] = <<TRUE, "Account created successfully!">>
    /\ reg_result[2] = <<FALSE, "Username already exists">>
    /\ Len(users) = 2

\* ------------------------------------------------------------------ C22
\* the chunks the greedy packing sends for these paragraphs, the buffer
\* holding chunk
RECURSIVE Pack(_, _)
Pack(paras, chunk) ==
    LET flushed == IF chunk = EMPTY THEN <<>> ELSE <<chunk>>
    IN  IF paras = <<>> THEN flushed
        ELSE IF len(chunk) + len(paras[1]) < max_length
        THEN Pack(Tail(paras), Cat(chunk, Cat(paras[1], SEP)))
        ELSE flushed \o Pack(Tail(paras), Cat(paras[1], SEP))

\* the provider calls translate_text makes for t when no call raises
ExpectedCalls(t) ==
    IF len(t) <= max_length THEN <<t>> ELSE Pack(split(t), EMPTY)

\* what translate_text returns for t from provider p
ExpectedResult(p, t) ==
    IF len(t) <= max_length THEN Translate(p, t)
    ELSE join(SEP, [i \in DOMAIN ExpectedCalls(t) |-> Translate(p, ExpectedCalls(t)[i])])

\* the external call the detector makes next, given its locals
NextCall ==
    CASE pc = "ocr" /\ lang_idx <= Len(priority_languages)
            -> <<"ocr", priority_languages[lang_idx]>>
      [] pc = "detect" -> <<"detect", priority_languages[lang_idx]>>
      [] pc = "after_loop" /\ best_text = EMPTY -> <<"ocr", "eng">>
      [] OTHER -> <<"none", "none">>

\* the call a step has made, read from the call logs
CallMade ==
    IF Len(ocr_calls') > Len(ocr_calls) THEN <<"ocr", Last(ocr_calls')>>
    ELSE IF Len(detect_calls') > Len(detect_calls)
    THEN <<"detect", Last(detect_calls').lang>>
    ELSE <<"none", "none">>

\* the detector's locals after a step, given its locals before and the
\* answer to the call it made
LocalsAfter ==
    LET raised == ocr_outcome' = "raised"
        longer(t) == len(strip(t)) > len(strip(best_text))
    IN  CASE pc = "ocr" /\ lang_idx <= Len(priority_languages) /\ raised
                -> <<"ocr", lang_idx + 1, text, best_text, best_lang>>
          [] pc = "ocr" /\ lang_idx <= Len(priority_languages) /\ ~raised
                -> IF longer(text') /\ len(strip(text')) > meaningful_threshold
                   THEN <<"detect", lang_idx, text', best_text, best_lang>>
                   ELSE <<"ocr", lang_idx + 1, text', best_text, best_lang>>
          [] pc = "ocr" /\ lang_idx > Len(priority_languages)
                -> <<"after_loop", lang_idx, text, best_text, best_lang>>
          [] pc = "detect" /\ Last(detect_calls').ok
                -> <<"after_loop", lang_idx, text, strip(text), priority_languages[lang_idx]>>
          [] pc = "detect" /\ ~Last(detect_calls').ok
                -> IF longer(text)
                   THEN <<"ocr", lang_idx + 1, text, strip(text), priority_languages[lang_idx]>>
                   ELSE <<"ocr", lang_idx + 1, text, best_text, best_lang>>
          [] pc = "after_loop" /\ best_text # EMPTY
                -> <<"done", lang_idx, text, best_text, best_lang>>
          [] pc = "after_loop" /\ best_text = EMPTY /\ raised
                -> <<"raised", lang_idx, text, best_text, best_lang>>
          [] pc = "after_loop" /\ best_text = EMPTY /\ ~raised
                -> <<"done", lang_idx, text, strip(fallback_text'), "eng">>

\* C22: an invocation's external calls and result are a function of its
\* inputs and of the answers to those calls, whatever an earlier invocation
\* left behind. auto_detect_and_extract starts from fixed locals, each of its
\* steps makes the call its locals determine and moves to the locals that
\* the answer determines, and it returns its running best; translate_text
\* makes the calls, and returns the result, that its text and the provider's
\* answers determine.
C22_Deterministic ==
    /\ [][ (pc = "idle" /\ fn' = "auto_detect_and_extract")
           => /\ <<pc', lang_idx', best_text', best_lang'>> = <<"ocr", 1, EMPTY, "eng">>
              /\ <<ocr_calls', detect_calls'>> = <<ocr_calls, detect_calls>> ]_vars
    /\ [][ (InDetect /\ pc \notin {"done", "raised"})
           => /\ CallMade = NextCall
              /\ <<pc', lang_idx', text', best_text', best_lang'>> = LocalsAfter
              /\ pc' = "done" => ret' = <<best_text', best_lang'>>
              /\ pc' # "done" => ret' = ret ]_vars
    /\ []( InTranslate
           => /\ Len(provider_calls) <= Len(ExpectedCalls(text))
              /\ \A i \in DOMAIN provider_calls : provider_calls[i] = ExpectedCalls(text)[i]
              /\ pc = "done"
                 => /\ provider_calls = ExpectedCalls(text)
                    /\ ret = ExpectedResult(provider, text)
              /\ pc = "raised"
                 => /\ provider_calls # <<>>
                    /\ err = TranslationError(provider_error) )

\* translate_text, started with an earlier invocation's list of translated
\* paragraphs still in place, sent a long text out in three chunks and
\* returned their translations and nothing else
C22_Witness ==
    /\ InTranslate
    /\ pc = "done"
    /\ Len(provider_calls) = 3
    /\ provider_calls = ExpectedCalls(text)
    /\ translated_paragraphs[1] # Leftover
    /\ ret = ExpectedResult(provider, text)

====
